---- MODULE Spec2Model ----
(***************************************************************************)
(* A model of the grug interpreter runtime (entity.py, grug_state.py), of  *)
(* the type propagator (type_propagator.py) and of the parser (parser.py). *)
(*                                                                         *)
(* Spec and SpecDeep run the interpreter on abstract scripts; SpecFill     *)
(* runs TypePropagator.fill on each AST of a bounded family; SpecParse     *)
(* runs Parser.parse on the tokens of each file of a bounded family;       *)
(* SpecEntity compiles files and SpecRun fills ASTs, and both create an    *)
(* entity of the file and run its on_ functions statement by statement.   *)
(*                                                                         *)
(* Runtime part.  The Python call stack of the interpreter is the variable *)
(* `stack`: one frame per active _run_on_fn, _run_helper_fn, _init_globals *)
(* and _run_game_fn call, each holding the locals that call saved.  A      *)
(* script is abstracted to the choices it can make while a body runs: call *)
(* a helper, call a game function, finish a while iteration, or leave the  *)
(* body.  A host game function may return, raise GameFnError, fire a hook  *)
(* on an entity it holds, or create an entity.                             *)
(***************************************************************************)
EXTENDS Integers, Sequences, FiniteSets, TLC

VARIABLES
    fn_depth,          \* GrugState.fn_depth
    next_id,           \* GrugState.next_id
    n_entities,        \* number of Entity objects constructed so far
    status,            \* per entity: "none", "init" (in __init__), "held", "lost"
    me_id,             \* per entity: Entity.me_id
    on_fn_depth,       \* per entity: Entity.on_fn_depth
    entity_fn_name,    \* per entity: Entity.fn_name
    local_variables,   \* per entity: which dict Entity.local_variables refers to
    elapsed,           \* per entity: time.time() - Entity.start_time, saturating
    stack,             \* the interpreter's call stack
    exc,               \* the exception in flight, or "none"
    handler_calls,     \* calls of runtime_error_handler during this host call
    causes,            \* runtime error causes during this host call
    host_call,         \* what the host called last at top level: "none", "on", "create"
    host_saw,          \* how that call ended: "running", "returned", or an exception
    ast,               \* TypePropagator.ast, annotated in place as it is filled
    tp_pc,             \* what TypePropagator.fill does next
    tp_error,          \* the TypePropagationError that was raised, if any
    global_variables,  \* TypePropagator.global_variables
    tokens,            \* Parser.tokens
    token_index,       \* i[0] of Parser.parse, counted from 1
    parser_ast,        \* Parser.ast
    parser_helper_fns, \* the names in Parser.helper_fns
    parser_on_fns,     \* the names in Parser.on_fns
    called_helper_fn_names, \* Parser.called_helper_fn_names
    indentation,       \* Parser.indentation
    seen_on_fn,        \* the five flags of Parser.parse
    seen_newline,
    newline_allowed,
    newline_required,
    just_seen_global,
    ps_pc,             \* where Parser.parse is: "idle", "parsing", "parsed", "error"
    ps_error,          \* the ParserError that was raised, if any
    en_pc,             \* the entity of the file: "none", "created", "raised"
    en_me_id,          \* its Entity.me_id
    en_global_variables, \* its Entity.global_variables
    en_fn_name,        \* its Entity.fn_name
    en_on_fn_name,     \* the on_ function the game called last, or "none"
    en_calls,          \* the game function calls of the last call of the game
    en_handled,        \* the on_fn_name of each handler call of that call
    en_raised,         \* the exception that call raised, or "none"
    resource,          \* the string of validate_resource_string
    resource_extension, \* its resource_extension, <<>> for None
    rs_pc,             \* "idle", "validating" or "validated"
    rs_error,          \* the TypePropagationError it raised, or NoError
    gs_packages,       \* the packages GrugState is constructed from
    gs_game_fns,       \* GrugState.game_fns
    gs_pc,             \* "idle", "constructing", "constructed" or "exit"
    ld_config,         \* what grug.toml of the current directory holds for the component
    ld_entry_points,   \* the entry points of the group, and whether their lookup raises
    ld_pc,             \* "idle", "loading", "loaded" or "raised"
    ld_cls,            \* the class load_component returned
    sz_pc,             \* where the round trip of a file is
    sz_asts,           \* the ASTs that were handed to the serializer
    sz_jsons,          \* the JSON files that dump_file_to_json wrote
    sz_text            \* the file that generate_file_from_json wrote

rt_vars == <<fn_depth, next_id, n_entities, status, me_id, on_fn_depth,
             entity_fn_name, local_variables, elapsed, stack, exc, handler_calls, causes,
             host_call, host_saw>>

tp_vars == <<ast, tp_pc, tp_error, global_variables>>

ps_vars == <<tokens, token_index, parser_ast, parser_helper_fns,
             parser_on_fns, called_helper_fn_names, indentation, seen_on_fn,
             seen_newline, newline_allowed, newline_required,
             just_seen_global, ps_pc, ps_error>>

en_vars == <<en_pc, en_me_id, en_global_variables, en_fn_name, en_on_fn_name,
             en_calls, en_handled, en_raised>>

rs_vars == <<resource, resource_extension, rs_pc, rs_error>>

gs_vars == <<gs_packages, gs_game_fns, gs_pc>>

ld_vars == <<ld_config, ld_entry_points, ld_pc, ld_cls>>

sz_vars == <<sz_pc, sz_asts, sz_jsons, sz_text>>

vars == <<rt_vars, tp_vars, ps_vars, en_vars, rs_vars, gs_vars, ld_vars, sz_vars>>

\* What the steps of the runtime leave alone.
not_rt_vars == <<tp_vars, ps_vars, en_vars, rs_vars, gs_vars, ld_vars, sz_vars>>

\* What the steps of the type propagator leave alone.
not_tp_vars == <<rt_vars, ps_vars, en_vars, rs_vars, gs_vars, ld_vars, sz_vars>>

\* What the steps of the parser leave alone.
not_ps_vars == <<rt_vars, tp_vars, en_vars, rs_vars, gs_vars, ld_vars, sz_vars>>

\* What the steps of the entity of the compiled file leave alone.
not_en_vars == <<rt_vars, tp_vars, ps_vars, rs_vars, gs_vars, ld_vars, sz_vars>>

\* What validate_resource_string leaves alone.
not_rs_vars == <<rt_vars, tp_vars, ps_vars, en_vars, gs_vars, ld_vars, sz_vars>>

\* What the registration of the game functions leaves alone.
not_gs_vars == <<rt_vars, tp_vars, ps_vars, en_vars, rs_vars, ld_vars, sz_vars>>

\* What load_component leaves alone.
not_ld_vars == <<rt_vars, tp_vars, ps_vars, en_vars, rs_vars, gs_vars, sz_vars>>

\* What the actions on sz_vars leave alone.
not_sz_vars == <<rt_vars, tp_vars, ps_vars, en_vars, rs_vars, gs_vars, ld_vars>>

----------------------------------------------------------------------------
(* Bounds of the model *)

MaxEntities == 2

MaxHostNesting == 1

MaxCallerDepth == 1

MaxItems == 3

\* The most lines of the body of a function whose lines may be empty.
MaxLines == 4

\* The most binary operators of an expression that is parsed.
MaxOperators == 2

\* The most packages a GrugState is constructed from.
MaxPackages == 2

\* The most game functions of a package.
MaxGameFns == 2

\* The most definitions and lines at the top level of a file that is dumped.
MaxDefinitions == 2

\* The most entry points of a group.
MaxEntryPoints == 3

\* The longest resource string that is validated.
MaxResourceLen == 6

\* The iterations of while loops that an on_ function runs within its time
\* limit, a unit of time being what an iteration takes.
IterationsInBudget == 6

(* Program constants *)

MAX_DEPTH == 100

on_fn_time_limit == 0

Entities == 1..MaxEntities

RuntimeErrors == {"StackOverflow", "TimeLimitExceeded", "ReraisedGameFnError"}

----------------------------------------------------------------------------
(* Helpers on the call stack *)

Top == stack[Len(stack)]

Popped == SubSeq(stack, 1, Len(stack) - 1)

\* The locals of an active call; on_fn_name is the parameter of _run_on_fn.
Frame(kind, ent, old_fn_depth, old_on_fn_depth, parent_local_variables,
      on_fn_name) ==
    [kind |-> kind, ent |-> ent, old_fn_depth |-> old_fn_depth,
     old_on_fn_depth |-> old_on_fn_depth,
     parent_local_variables |-> parent_local_variables,
     on_fn_name |-> on_fn_name]

GameFramesOnStack ==
    Cardinality({i \in 1..Len(stack) : stack[i].kind = "game"})

\* The number of helper frames between the innermost hook (or _init_globals)
\* frame and the top of the stack.
CallerDepth ==
    LET below == {i \in 1..Len(stack) : stack[i].kind # "helper"}
    IN  IF below = {} THEN Len(stack)
        ELSE Len(stack) - (CHOOSE i \in below : \A j \in below : j <= i)

\* Which game function calls the model follows: Spec follows the calls made
\* by a hook, by _init_globals, or by one of the first MaxCallerDepth helpers
\* below a hook; SpecDeep follows the calls made at any depth of helper
\* recursion.
GameCallFollowed == CallerDepth <= MaxCallerDepth

\* The host can call into the engine from its top level or from inside a
\* game function; the model follows such calls up to MaxHostNesting game
\* functions deep.  The host lets an exception that comes out of a call it
\* made inside a game function propagate unchanged.
HostCanCall ==
    /\ exc = "none"
    /\ (IF stack = <<>> THEN TRUE ELSE Top.kind = "game")
    /\ GameFramesOnStack <= MaxHostNesting

\* A statement of an on_ or helper_ body is about to run.
BodyRunning ==
    /\ exc = "none"
    /\ stack # <<>>
    /\ Top.kind \in {"on", "helper"}

\* What the host sees when a call it made from its top level ends.
HostOutcome(rest, outcome) ==
    IF rest = <<>> THEN host_saw' = outcome ELSE UNCHANGED host_saw

\* Bookkeeping of a call the host makes from its top level.
HostCallStarts(what) ==
    IF stack = <<>>
    THEN /\ host_call' = what
         /\ host_saw' = "running"
         /\ handler_calls' = 0
         /\ causes' = 0
    ELSE UNCHANGED <<host_call, host_saw, handler_calls, causes>>

Expired(e) == elapsed[e] > on_fn_time_limit

----------------------------------------------------------------------------
(* GrugState.__init__ *)

RtInit ==
    /\ fn_depth = 0
    /\ next_id = 0
    /\ n_entities = 0
    /\ status = [e \in Entities |-> "none"]
    /\ me_id = [e \in Entities |-> 0]
    /\ on_fn_depth = [e \in Entities |-> 0]
    /\ entity_fn_name = [e \in Entities |-> "none"]
    /\ local_variables = [e \in Entities |-> 0]
    /\ elapsed = [e \in Entities |-> 0]
    /\ stack = <<>>
    /\ exc = "none"
    /\ handler_calls = 0
    /\ causes = 0
    /\ host_call = "none"
    /\ host_saw = "returned"

----------------------------------------------------------------------------
(* Entity.__init__ and the entry of Entity._init_globals *)

\* A faulty variant of Entity_issue_id that hands out next_id without
\* advancing it.
Entity_issue_id_NoIncrement(e) ==
    /\ me_id' = [me_id EXCEPT ![e] = next_id]
    /\ next_id' = next_id

\* self.me_id = state.next_id; state.next_id += 1
Entity_issue_id(e) ==
    /\ me_id' = [me_id EXCEPT ![e] = next_id]
    /\ next_id' = next_id + 1

Entity_init ==
    /\ HostCanCall
    /\ n_entities < MaxEntities
    /\ LET e == n_entities + 1 IN
       /\ n_entities' = e
       /\ Entity_issue_id(e)
       /\ local_variables' = [local_variables EXCEPT ![e] = 0]
       /\ on_fn_depth' = [on_fn_depth EXCEPT ![e] = 0]
       /\ status' = [status EXCEPT ![e] = "init"]
       /\ entity_fn_name' = [entity_fn_name EXCEPT ![e] = "init_globals"]
       /\ stack' = Append(stack, Frame("init", e, fn_depth, 0, 0, "none"))
       /\ fn_depth' = fn_depth + 1
       /\ elapsed' = [elapsed EXCEPT ![e] = 0]
    /\ HostCallStarts("create")
    /\ UNCHANGED exc
    /\ UNCHANGED not_rt_vars

\* The for loop over the globals ends: finally restores fn_depth, and
\* Entity(...) returns the entity to whoever constructed it.
InitGlobals_Return ==
    /\ exc = "none"
    /\ stack # <<>>
    /\ Top.kind = "init"
    /\ fn_depth' = Top.old_fn_depth
    /\ status' = [status EXCEPT ![Top.ent] = "held"]
    /\ stack' = Popped
    /\ HostOutcome(Popped, "returned")
    /\ UNCHANGED <<next_id, n_entities, me_id, on_fn_depth, entity_fn_name, local_variables,
                   elapsed, exc, handler_calls, causes, host_call>>
    /\ UNCHANGED not_rt_vars

\* except (StackOverflow, TimeLimitExceeded, ReraisedGameFnError)
InitGlobals_Except ==
    /\ exc \in RuntimeErrors
    /\ stack # <<>>
    /\ Top.kind = "init"
    /\ LET propagate == fn_depth > 1 IN
       /\ exc' = IF propagate /\ Popped # <<>> THEN exc ELSE "none"
       /\ status' = [status EXCEPT ![Top.ent] =
                        IF propagate THEN "lost" ELSE "held"]
       /\ HostOutcome(Popped, IF propagate THEN exc ELSE "returned")
    /\ fn_depth' = Top.old_fn_depth
    /\ stack' = Popped
    /\ UNCHANGED <<next_id, n_entities, me_id, on_fn_depth, entity_fn_name, local_variables,
                   elapsed, handler_calls, causes, host_call>>
    /\ UNCHANGED not_rt_vars

----------------------------------------------------------------------------
(* Entity._run_on_fn *)

\* A faulty variant of StartTimeCaptured: every hook that is entered
\* captures start_time.
StartTimeCaptured_ByEveryHook(e) == TRUE

\* if self.on_fn_depth == 1, after self.on_fn_depth += 1
StartTimeCaptured(e) == on_fn_depth[e] + 1 = 1

RunOnFn_Enter(e, on_fn_name) ==
    /\ HostCanCall
    /\ status[e] = "held"
    /\ stack' = Append(stack, Frame("on", e, fn_depth, on_fn_depth[e],
                                    local_variables[e], on_fn_name))
    /\ local_variables' = [local_variables EXCEPT ![e] = Len(stack) + 1]
    /\ entity_fn_name' = [entity_fn_name EXCEPT ![e] = on_fn_name]
    /\ fn_depth' = fn_depth + 1
    /\ on_fn_depth' = [on_fn_depth EXCEPT ![e] = @ + 1]
    /\ elapsed' = [elapsed EXCEPT ![e] = IF StartTimeCaptured(e) THEN 0 ELSE @]
    /\ HostCallStarts("on")
    /\ UNCHANGED <<next_id, n_entities, status, me_id, exc>>
    /\ UNCHANGED not_rt_vars

\* A faulty variant of RunOnFn_Finally that restores the three values only
\* when the body did not raise, as the end of _run_helper_fn does.
RunOnFn_Finally_OnlyOnReturn ==
    IF exc = "none"
    THEN /\ fn_depth' = Top.old_fn_depth
         /\ on_fn_depth' = [on_fn_depth EXCEPT ![Top.ent] = Top.old_on_fn_depth]
         /\ local_variables' =
               [local_variables EXCEPT ![Top.ent] = Top.parent_local_variables]
    ELSE UNCHANGED <<fn_depth, on_fn_depth, local_variables>>

\* The finally clause of _run_on_fn.
RunOnFn_Finally ==
    /\ fn_depth' = Top.old_fn_depth
    /\ on_fn_depth' = [on_fn_depth EXCEPT ![Top.ent] = Top.old_on_fn_depth]
    /\ local_variables' =
          [local_variables EXCEPT ![Top.ent] = Top.parent_local_variables]

\* The body ran to its end, or raised Return.
RunOnFn_Return ==
    /\ exc = "none"
    /\ stack # <<>>
    /\ Top.kind = "on"
    /\ RunOnFn_Finally
    /\ stack' = Popped
    /\ HostOutcome(Popped, "returned")
    /\ UNCHANGED <<next_id, n_entities, status, me_id, entity_fn_name, elapsed, exc,
                   handler_calls, causes, host_call>>
    /\ UNCHANGED not_rt_vars

\* except (StackOverflow, TimeLimitExceeded, ReraisedGameFnError):
\*     if self.state.fn_depth > 1: raise
RunOnFn_Propagates == fn_depth > 1

RunOnFn_Except ==
    /\ exc \in RuntimeErrors
    /\ stack # <<>>
    /\ Top.kind = "on"
    /\ exc' = IF RunOnFn_Propagates /\ Popped # <<>> THEN exc ELSE "none"
    /\ HostOutcome(Popped, IF RunOnFn_Propagates THEN exc ELSE "returned")
    /\ RunOnFn_Finally
    /\ stack' = Popped
    /\ UNCHANGED <<next_id, n_entities, status, me_id, entity_fn_name, elapsed,
                   handler_calls, causes, host_call>>
    /\ UNCHANGED not_rt_vars

----------------------------------------------------------------------------
(* Entity._check_time_limit_exceeded, as called by entity e *)

\* The handler is called and TimeLimitExceeded is raised.
TimeLimit_Raise ==
    /\ handler_calls' = handler_calls + 1
    /\ causes' = causes + 1
    /\ exc' = "TimeLimitExceeded"

(* Entity._run_while_statement: one iteration of the body has ended, by *)
(* reaching its end or by Continue, and the time limit is checked.      *)
While_IterationEnds ==
    /\ BodyRunning
    /\ Expired(Top.ent)
    /\ TimeLimit_Raise
    /\ UNCHANGED <<fn_depth, next_id, n_entities, status, me_id, on_fn_depth, entity_fn_name,
                   local_variables, elapsed, stack, host_call, host_saw>>
    /\ UNCHANGED not_rt_vars

----------------------------------------------------------------------------
(* Entity._run_helper_fn *)

RunHelperFn_Enter ==
    /\ BodyRunning
    /\ LET e == Top.ent IN
       /\ local_variables' = [local_variables EXCEPT ![e] = Len(stack) + 1]
       /\ fn_depth' = fn_depth + 1
       /\ IF fn_depth + 1 > MAX_DEPTH
          THEN /\ handler_calls' = handler_calls + 1
               /\ causes' = causes + 1
               /\ exc' = "StackOverflow"
               /\ UNCHANGED stack
          ELSE IF Expired(e)
          THEN /\ TimeLimit_Raise
               /\ UNCHANGED stack
          ELSE /\ stack' = Append(stack, Frame("helper", e, fn_depth, 0,
                                               local_variables[e], "none"))
               /\ UNCHANGED <<exc, handler_calls, causes>>
    /\ UNCHANGED <<next_id, n_entities, status, me_id, on_fn_depth, entity_fn_name, elapsed,
                   host_call, host_saw>>
    /\ UNCHANGED not_rt_vars

\* The body ran to its end, or raised Return.
RunHelperFn_Return ==
    /\ exc = "none"
    /\ stack # <<>>
    /\ Top.kind = "helper"
    /\ fn_depth' = Top.old_fn_depth
    /\ local_variables' =
          [local_variables EXCEPT ![Top.ent] = Top.parent_local_variables]
    /\ stack' = Popped
    /\ UNCHANGED <<next_id, n_entities, status, me_id, on_fn_depth, entity_fn_name, elapsed,
                   exc, handler_calls, causes, host_call, host_saw>>
    /\ UNCHANGED not_rt_vars

\* An exception leaves _run_helper_fn, which has no except and no finally:
\* it passes through every helper frame between the raise and the nearest
\* _run_on_fn or _run_game_fn frame without any effect on the state.
RunHelperFn_Unwind ==
    /\ exc # "none"
    /\ stack # <<>>
    /\ Top.kind = "helper"
    /\ LET below == {i \in 1..Len(stack) : stack[i].kind # "helper"}
           k == CHOOSE i \in below : \A j \in below : j <= i
       IN stack' = SubSeq(stack, 1, k)
    /\ UNCHANGED <<fn_depth, next_id, n_entities, status, me_id, on_fn_depth, entity_fn_name,
                   local_variables, elapsed, exc, handler_calls, causes,
                   host_call, host_saw>>
    /\ UNCHANGED not_rt_vars

----------------------------------------------------------------------------
(* Entity._run_game_fn *)

\* Called from a body, or from a global's initializer.
RunGameFn_Call ==
    /\ exc = "none"
    /\ stack # <<>>
    /\ Top.kind \in {"on", "helper", "init"}
    /\ stack' = Append(stack, Frame("game", Top.ent, fn_depth, 0, 0,
                                    "none"))
    /\ UNCHANGED <<fn_depth, next_id, n_entities, status, me_id, on_fn_depth, entity_fn_name,
                   local_variables, elapsed, exc, handler_calls, causes,
                   host_call, host_saw>>
    /\ UNCHANGED not_rt_vars

RunGameFn_Enter == GameCallFollowed /\ RunGameFn_Call

RunGameFn_EnterDeep == RunGameFn_Call

\* result = game_fn(*args) returns.
RunGameFn_Return ==
    /\ exc = "none"
    /\ stack # <<>>
    /\ Top.kind = "game"
    /\ stack' = Popped
    /\ UNCHANGED <<fn_depth, next_id, n_entities, status, me_id, on_fn_depth, entity_fn_name,
                   local_variables, elapsed, exc, handler_calls, causes,
                   host_call, host_saw>>
    /\ UNCHANGED not_rt_vars

\* The host's game function raises GameFnError.
GameFn_Raises ==
    /\ exc = "none"
    /\ stack # <<>>
    /\ Top.kind = "game"
    /\ exc' = "GameFnError"
    /\ causes' = causes + 1
    /\ UNCHANGED <<fn_depth, next_id, n_entities, status, me_id, on_fn_depth, entity_fn_name,
                   local_variables, elapsed, stack, handler_calls,
                   host_call, host_saw>>
    /\ UNCHANGED not_rt_vars

\* A faulty variant of RunGameFn_Catches in which the error _run_game_fn
\* raises is itself caught by the _run_game_fn calls it passes through.
RunGameFn_Catches_Reraised(x) == x \in {"GameFnError", "ReraisedGameFnError"}

\* except GameFnError as e: which exceptions the clause catches.
RunGameFn_Catches(x) == x = "GameFnError"

\* An exception comes out of game_fn(*args).
RunGameFn_Except ==
    /\ exc # "none"
    /\ stack # <<>>
    /\ Top.kind = "game"
    /\ IF RunGameFn_Catches(exc)
       THEN /\ handler_calls' = handler_calls + 1
            /\ exc' = "ReraisedGameFnError"
       ELSE UNCHANGED <<handler_calls, exc>>
    /\ stack' = Popped
    /\ UNCHANGED <<fn_depth, next_id, n_entities, status, me_id, on_fn_depth, entity_fn_name,
                   local_variables, elapsed, causes, host_call, host_saw>>
    /\ UNCHANGED not_rt_vars

----------------------------------------------------------------------------
(* time.time() advances while hooks run *)

Tick ==
    /\ stack # <<>>
    /\ \E e \in Entities : on_fn_depth[e] > 0 /\ ~Expired(e)
    /\ elapsed' = [e \in Entities |->
                     IF on_fn_depth[e] > 0 /\ ~Expired(e)
                     THEN elapsed[e] + 1 ELSE elapsed[e]]
    /\ UNCHANGED <<fn_depth, next_id, n_entities, status, me_id, on_fn_depth, entity_fn_name,
                   local_variables, stack, exc, handler_calls, causes,
                   host_call, host_saw>>
    /\ UNCHANGED not_rt_vars

----------------------------------------------------------------------------
(* The AST of parser.py, as the type propagator reads and annotates it *)

None == "None"

\* parser.py Result(type, type_name)
Result(type, type_name) == [type |-> type, type_name |-> type_name]

NoResult == Result(None, None)

\* An expression node: its class, its operator or name, its operand or
\* argument expressions, and its result.
Expr(cls, x, exprs, result) ==
    [cls |-> cls, x |-> x, exprs |-> exprs, result |-> result]

NoExpr == Expr(None, "", <<>>, NoResult)

TrueExpr == Expr("TrueExpr", "", <<>>, Result("BOOL", "bool"))

NumberExpr == Expr("NumberExpr", "", <<>>, Result("NUMBER", "number"))

StringExpr == Expr("StringExpr", "", <<>>, Result("STRING", "string"))

IdentifierExpr(name) == Expr("IdentifierExpr", name, <<>>, NoResult)

UnaryExpr(operator, expr) == Expr("UnaryExpr", operator, <<expr>>, NoResult)

BinaryExpr(left_expr, operator, right_expr) ==
    Expr("BinaryExpr", operator, <<left_expr, right_expr>>, NoResult)

LogicalExpr(left_expr, operator, right_expr) ==
    Expr("LogicalExpr", operator, <<left_expr, right_expr>>, NoResult)

CallExpr(fn_name, arguments) == Expr("CallExpr", fn_name, arguments, NoResult)

ParenthesizedExpr(expr) == Expr("ParenthesizedExpr", "", <<expr>>, NoResult)

\* A statement: VariableStatement (a declaration when type_name is given,
\* else a reassignment), CallStatement, IfStatement, WhileStatement or
\* ReturnStatement.
Statement(cls, name, type_name, expr, body, else_body) ==
    [cls |-> cls, name |-> name, type_name |-> type_name, expr |-> expr,
     body |-> body, else_body |-> else_body]

VariableStatement(name, type_name, expr) ==
    Statement("VariableStatement", name, type_name, expr, <<>>, <<>>)

CallStatement(expr) == Statement("CallStatement", "", None, expr, <<>>, <<>>)

IfStatement(condition, if_body, else_body) ==
    Statement("IfStatement", "", None, condition, if_body, else_body)

WhileStatement(condition, body_statements) ==
    Statement("WhileStatement", "", None, condition, body_statements, <<>>)

ReturnStatement(value) ==
    Statement("ReturnStatement", "", None, value, <<>>, <<>>)

BreakStatement == Statement("BreakStatement", "", None, NoExpr, <<>>, <<>>)

ContinueStatement ==
    Statement("ContinueStatement", "", None, NoExpr, <<>>, <<>>)

Argument(name, type_name) == [name |-> name, type_name |-> type_name]

\* OnFn and HelperFn
Fn(cls, fn_name, arguments, return_type_name, body_statements) ==
    [cls |-> cls, fn_name |-> fn_name, arguments |-> arguments,
     return_type_name |-> return_type_name,
     body_statements |-> body_statements]

\* Parser.parse_type
parse_type(type_str) ==
    CASE type_str = "bool" -> "BOOL"
      [] type_str = "number" -> "NUMBER"
      [] type_str = "string" -> "STRING"
      [] type_str = "resource" -> "RESOURCE"
      [] type_str = "entity" -> "ENTITY"
      [] OTHER -> "ID"

\* The type of an optional type name.
TypeOf(type_name) == IF type_name = None THEN None ELSE parse_type(type_name)

----------------------------------------------------------------------------
(* The mod API the files are compiled against *)

file_entity_type == "Dog"

\* mod_api["entities"][entity_type]["on_functions"], in declaration order
entity_on_functions ==
    << [name |-> "on_a", arguments |-> <<>>],
       [name |-> "on_b", arguments |-> <<Argument("n", "number")>>] >>

GameFnNames ==
    {"nothing", "get_id", "get_dog", "get_cat", "take_id", "take_dog",
     "is_true", "is_false", "get_number", "take_number", "take_bools",
     "fire_b"}

\* mod_api["game_functions"]
game_functions ==
    [fn_name \in GameFnNames |->
        CASE fn_name = "nothing" ->
                 [arguments |-> <<>>, return_type_name |-> None]
          [] fn_name = "get_id" ->
                 [arguments |-> <<>>, return_type_name |-> "id"]
          [] fn_name = "get_dog" ->
                 [arguments |-> <<>>, return_type_name |-> "Dog"]
          [] fn_name = "get_cat" ->
                 [arguments |-> <<>>, return_type_name |-> "Cat"]
          [] fn_name = "take_id" ->
                 [arguments |-> <<Argument("i", "id")>>,
                  return_type_name |-> None]
          [] fn_name = "take_dog" ->
                 [arguments |-> <<Argument("d", "Dog")>>,
                  return_type_name |-> None]
          [] fn_name \in {"is_true", "is_false"} ->
                 [arguments |-> <<>>, return_type_name |-> "bool"]
          [] fn_name = "get_number" ->
                 [arguments |-> <<>>, return_type_name |-> "number"]
          [] fn_name = "take_number" ->
                 [arguments |-> <<Argument("n", "number")>>,
                  return_type_name |-> None]
          [] fn_name = "take_bools" ->
                 [arguments |-> <<Argument("a", "bool"), Argument("b", "bool")>>,
                  return_type_name |-> None]
          [] fn_name = "fire_b" ->
                 [arguments |-> <<Argument("n", "number")>>,
                  return_type_name |-> None]]

----------------------------------------------------------------------------
(* The ASTs that are filled *)

VarNames == {"me", "g", "x", "i", "d", "n"}

DeclaredTypeNames == {"bool", "number", "id", "Dog"}

Atoms ==
    {TrueExpr, NumberExpr, StringExpr, IdentifierExpr("me"),
     CallExpr("nothing", <<>>), CallExpr("get_id", <<>>),
     CallExpr("get_dog", <<>>), CallExpr("get_cat", <<>>)}

Operands ==
    Atoms
    \cup {ParenthesizedExpr(a) :
             a \in {NumberExpr, CallExpr("nothing", <<>>),
                    CallExpr("get_id", <<>>)}}
    \cup {UnaryExpr(op, a) :
             op \in {"NOT_TOKEN", "MINUS_TOKEN"},
             a \in {TrueExpr, NumberExpr, CallExpr("nothing", <<>>)}}

Calls ==
    {CallExpr(fn_name, <<>>) : fn_name \in {"nothing", "get_id"}}
    \cup {CallExpr(fn_name, <<a>>) :
             fn_name \in {"take_id", "take_dog"}, a \in Operands}

Exprs ==
    Operands
    \cup Calls
    \cup {BinaryExpr(l, op, r) :
             l \in Operands, r \in Operands,
             op \in {"EQUALS_TOKEN", "LESS_TOKEN", "PLUS_TOKEN"}}
    \cup {LogicalExpr(l, "AND_TOKEN", r) : l \in Operands, r \in Operands}

OnA(body_statements) == Fn("OnFn", "on_a", <<>>, None, body_statements)

Nothing == CallStatement(CallExpr("nothing", <<>>))

\* One AST for every place an expression can stand in and every expression.
Programs ==
    {<<VariableStatement("g", t, e), OnA(<<Nothing>>)>> :
        t \in DeclaredTypeNames, e \in Exprs}
    \cup {<<OnA(<<VariableStatement("x", t, e)>>)>> :
             t \in DeclaredTypeNames, e \in Exprs}
    \cup {<<OnA(<<VariableStatement("i", "id", CallExpr("get_id", <<>>)),
                  VariableStatement("d", "Dog", CallExpr("get_dog", <<>>)),
                  VariableStatement(n, None, e)>>)>> :
             n \in {"i", "d"}, e \in Exprs}
    \cup {<<OnA(<<IfStatement(e, <<Nothing>>, <<>>)>>)>> : e \in Exprs}
    \cup {<<OnA(<<WhileStatement(e, <<Nothing>>)>>)>> : e \in Exprs}
    \cup {<<OnA(<<CallStatement(c)>>)>> : c \in Calls}
    \cup {<<OnA(<<CallStatement(CallExpr("helper_f", <<>>))>>),
            Fn("HelperFn", "helper_f", <<>>, t, <<ReturnStatement(e)>>)>> :
             t \in DeclaredTypeNames \cup {None}, e \in Exprs \cup {NoExpr}}

----------------------------------------------------------------------------
(* TypePropagator *)

\* raise TypePropagationError(...): which message, and the two type names
\* the message gives.
TypePropagationError(message, expected, got) ==
    [message |-> message, expected |-> expected, got |-> got]

NoError == TypePropagationError("none", "", "")

NoVariables == [name \in VarNames |-> NoResult]

\* What the methods read of self: the two variable maps and the return
\* type of the function being filled.
Self(locals, globals, fn_return_type_name) ==
    [local_variables |-> locals, global_variables |-> globals,
     fn_return_type_name |-> fn_return_type_name]

get_variable(name, self) ==
    IF self.local_variables[name] # NoResult
    THEN self.local_variables[name]
    ELSE self.global_variables[name]

\* The names for which fn_name.startswith("on_") and
\* fn_name.startswith("helper_") hold.
OnFnNames == {"on_a", "on_b", "on_c"}

HelperFnNames == {"helper_f", "helper_g"}

helper_fns == {i \in 1..Len(ast) : ast[i].cls = "HelperFn"}

on_fns == {i \in 1..Len(ast) : ast[i].cls = "OnFn"}

\* A faulty variant of is_incompatible, with the wildcard on either side.
is_incompatible_either_side(declared_type_name, result) ==
    /\ ~(declared_type_name = "id" /\ result.type = "ID")
    /\ ~(result.type_name = "id" /\ parse_type(declared_type_name) = "ID")
    /\ declared_type_name # result.type_name

\* The test that is written out at each place a declared type meets the
\* type of a value: in check_arguments, twice in fill_variable_statement,
\* for a return value in fill_statements and in fill_global_variables.
is_incompatible(declared_type_name, result) ==
    /\ ~(declared_type_name = "id" /\ result.type = "ID")
    /\ declared_type_name # result.type_name

RECURSIVE check_arguments_from(_, _, _)
check_arguments_from(i, params, args) ==
    IF i > Len(args) THEN NoError
    ELSE IF args[i].result.type = None
    THEN TypePropagationError("argument got a call that returns nothing",
                              params[i].type_name, None)
    ELSE IF is_incompatible(params[i].type_name, args[i].result)
    THEN TypePropagationError("argument expected the type",
                              params[i].type_name, args[i].result.type_name)
    ELSE check_arguments_from(i + 1, params, args)

\* No game function of this mod API takes a resource or an entity, so no
\* StringExpr argument is converted.
check_arguments(params, call_expr) ==
    LET args == call_expr.exprs IN
    IF Len(args) < Len(params)
    THEN TypePropagationError("expected the argument",
                              params[Len(args) + 1].type_name, "")
    ELSE IF Len(args) > Len(params)
    THEN TypePropagationError("unexpected extra argument", "",
                              args[Len(params) + 1].result.type_name)
    ELSE check_arguments_from(1, params, args)

Filled(error, expr) == [error |-> error, expr |-> expr]

RECURSIVE fill_expr(_, _)

RECURSIVE fill_exprs(_, _, _)

\* The rest of the loop over the arguments, once one of them is filled.
fill_exprs_next(i, exprs, self, f) ==
    IF f.error # NoError THEN [error |-> f.error, exprs |-> exprs]
    ELSE fill_exprs(i + 1, [exprs EXCEPT ![i] = f.expr], self)

\* for arg in expr.arguments: self.fill_expr(arg)
fill_exprs(i, exprs, self) ==
    IF i > Len(exprs) THEN [error |-> NoError, exprs |-> exprs]
    ELSE fill_exprs_next(i, exprs, self, fill_expr(exprs[i], self))

\* fill_call_expr once the arguments are filled (a).
fill_call_expr_checked(expr, a) ==
    LET with_args == [expr EXCEPT !.exprs = a.exprs]
        fn_name == expr.x
        helper == {i \in helper_fns : ast[i].fn_name = fn_name}
        result_of(fn) ==
            [with_args EXCEPT !.result =
                Result(TypeOf(fn.return_type_name), fn.return_type_name)]
        checked(fn) ==
            Filled(check_arguments(fn.arguments, with_args), result_of(fn))
    IN  IF a.error # NoError THEN Filled(a.error, expr)
        ELSE IF helper # {} THEN checked(ast[CHOOSE i \in helper : TRUE])
        ELSE IF fn_name \in GameFnNames THEN checked(game_functions[fn_name])
        ELSE IF fn_name \in OnFnNames
        THEN Filled(TypePropagationError("call of an on_ function", "", ""),
                    expr)
        ELSE IF fn_name \in HelperFnNames
        THEN Filled(TypePropagationError("helper function not defined",
                                         "", ""), expr)
        ELSE Filled(TypePropagationError("game function not declared",
                                         "", ""), expr)

fill_call_expr(expr, self) ==
    fill_call_expr_checked(expr, fill_exprs(1, expr.exprs, self))

\* fill_binary_expr once the operands are filled (l, r).
fill_binary_expr_checked(expr, l, r) ==
    LET left == l.expr.result
        right == r.expr.result
        op == expr.x
        is_id == left.type_name = "id" \/ right.type_name = "id"
        filled(result) ==
            Filled(NoError,
                   [expr EXCEPT !.exprs = <<l.expr, r.expr>>,
                                !.result = result])
        raise(message) ==
            Filled(TypePropagationError(message, left.type_name,
                                        right.type_name), expr)
    IN  IF l.error # NoError THEN Filled(l.error, expr)
        ELSE IF r.error # NoError THEN Filled(r.error, expr)
        ELSE IF /\ left.type = "STRING"
                /\ op \notin {"EQUALS_TOKEN", "NOT_EQUALS_TOKEN"}
        THEN raise("operator on a string")
        ELSE IF ~is_id /\ left.type_name # right.type_name
        THEN raise("operands must have the same type")
        ELSE IF op \in {"EQUALS_TOKEN", "NOT_EQUALS_TOKEN"}
        THEN filled(Result("BOOL", "bool"))
        ELSE IF op \in {"GREATER_OR_EQUAL_TOKEN", "GREATER_TOKEN",
                        "LESS_OR_EQUAL_TOKEN", "LESS_TOKEN"}
        THEN IF left.type # "NUMBER" THEN raise("operator expects number")
             ELSE filled(Result("BOOL", "bool"))
        ELSE IF op \in {"AND_TOKEN", "OR_TOKEN"}
        THEN IF left.type # "BOOL" THEN raise("operator expects bool")
             ELSE filled(Result("BOOL", "bool"))
        ELSE IF op \in {"PLUS_TOKEN", "MINUS_TOKEN", "MULTIPLICATION_TOKEN",
                        "DIVISION_TOKEN"}
        THEN IF left.type # "NUMBER" THEN raise("operator expects number")
             ELSE filled(left)
        ELSE filled(expr.result)

fill_binary_expr(expr, self) ==
    fill_binary_expr_checked(expr, fill_expr(expr.exprs[1], self),
                             fill_expr(expr.exprs[2], self))

\* The UnaryExpr branch of fill_expr, f being the filled operand.
fill_unary_expr_checked(expr, f) ==
    LET op == expr.x
        inner == expr.exprs[1]
        result == f.expr.result
        raise(message) ==
            Filled(TypePropagationError(message, "", result.type_name), expr)
    IN  IF inner.cls = "UnaryExpr" /\ inner.x = op
        THEN raise("double unary")
        ELSE IF f.error # NoError THEN Filled(f.error, expr)
        ELSE IF op = "NOT_TOKEN" /\ result.type # "BOOL"
        THEN raise("not before something that is not a bool")
        ELSE IF op = "MINUS_TOKEN" /\ result.type # "NUMBER"
        THEN raise("minus before something that is not a number")
        ELSE Filled(NoError, [expr EXCEPT !.exprs = <<f.expr>>,
                                          !.result = result])

\* The ParenthesizedExpr branch of fill_expr, f being the filled operand.
fill_parenthesized_expr_checked(expr, f) ==
    IF f.error # NoError THEN Filled(f.error, expr)
    ELSE Filled(NoError, [expr EXCEPT !.exprs = <<f.expr>>,
                                      !.result = f.expr.result])

\* The IdentifierExpr branch of fill_expr, var being what get_variable gave.
fill_identifier_expr_checked(expr, var) ==
    IF var = NoResult
    THEN Filled(TypePropagationError("variable does not exist", "", ""), expr)
    ELSE Filled(NoError, [expr EXCEPT !.result = var])

fill_expr(expr, self) ==
    CASE expr.cls = "IdentifierExpr" ->
            fill_identifier_expr_checked(expr, get_variable(expr.x, self))
      [] expr.cls = "UnaryExpr" ->
            fill_unary_expr_checked(expr, fill_expr(expr.exprs[1], self))
      [] expr.cls \in {"BinaryExpr", "LogicalExpr"} ->
            fill_binary_expr(expr, self)
      [] expr.cls = "CallExpr" -> fill_call_expr(expr, self)
      [] expr.cls = "ParenthesizedExpr" ->
            fill_parenthesized_expr_checked(expr,
                                            fill_expr(expr.exprs[1], self))
      [] OTHER -> Filled(NoError, expr)

FilledStatement(error, statement, locals) ==
    [error |-> error, statement |-> statement, local_variables |-> locals]

FilledStatements(error, statements, locals) ==
    [error |-> error, statements |-> statements, local_variables |-> locals]

\* fill_variable_statement once stmt.expr is filled (f).
fill_variable_statement_checked(stmt, self, f) ==
    LET var == get_variable(stmt.name, self)
        result == f.expr.result
        locals == self.local_variables
        raise(error) == FilledStatement(error, stmt, locals)
    IN  IF f.error # NoError THEN raise(f.error)
        ELSE IF stmt.type_name # None
        THEN IF var # NoResult
             THEN raise(TypePropagationError("variable already exists",
                                             "", ""))
             ELSE IF is_incompatible(stmt.type_name, result)
             THEN raise(TypePropagationError("can't assign", stmt.type_name,
                                             result.type_name))
             ELSE FilledStatement(
                      NoError, [stmt EXCEPT !.expr = f.expr],
                      [locals EXCEPT ![stmt.name] =
                          Result(parse_type(stmt.type_name), stmt.type_name)])
        ELSE IF var = NoResult
             THEN raise(TypePropagationError("variable does not exist",
                                             "", ""))
             ELSE IF /\ self.global_variables[stmt.name] # NoResult
                     /\ var.type = "ID"
             THEN raise(TypePropagationError(
                            "global id variables can't be reassigned",
                            "", ""))
             ELSE IF is_incompatible(var.type_name, result)
             THEN raise(TypePropagationError("can't assign", var.type_name,
                                             result.type_name))
             ELSE FilledStatement(NoError, [stmt EXCEPT !.expr = f.expr],
                                  locals)

fill_variable_statement(stmt, self) ==
    fill_variable_statement_checked(stmt, self, fill_expr(stmt.expr, self))

RECURSIVE remove_local_variables_in_statements(_, _, _)
remove_local_variables_in_statements(i, statements, locals) ==
    IF i > Len(statements) THEN locals
    ELSE remove_local_variables_in_statements(
             i + 1, statements,
             IF /\ statements[i].cls = "VariableStatement"
                /\ statements[i].type_name # None
             THEN [locals EXCEPT ![statements[i].name] = NoResult]
             ELSE locals)

\* The CallStatement branch of fill_statements, f being the filled call.
fill_call_statement_checked(stmt, self, f) ==
    FilledStatement(f.error, [stmt EXCEPT !.expr = f.expr],
                    self.local_variables)

\* The IfStatement branch of fill_statements: f is the filled condition, b
\* the filled if_body and e the filled else_body.
fill_if_statement_checked(stmt, self, f, b, e) ==
    IF f.error # NoError
    THEN FilledStatement(f.error, stmt, self.local_variables)
    ELSE IF b.error # NoError
    THEN FilledStatement(b.error, stmt, self.local_variables)
    ELSE IF e.error # NoError
    THEN FilledStatement(e.error, stmt, self.local_variables)
    ELSE FilledStatement(
             NoError,
             [stmt EXCEPT !.expr = f.expr, !.body = b.statements,
                          !.else_body = e.statements],
             e.local_variables)

\* The ReturnStatement branch of fill_statements, f being the filled value.
fill_return_statement_checked(stmt, self, f) ==
    LET raise(error) == FilledStatement(error, stmt, self.local_variables)
    IN  IF stmt.expr # NoExpr
        THEN IF f.error # NoError THEN raise(f.error)
             ELSE IF self.fn_return_type_name = None
             THEN raise(TypePropagationError(
                            "wasn't supposed to return any value", "", ""))
             ELSE IF is_incompatible(self.fn_return_type_name, f.expr.result)
             THEN raise(TypePropagationError(
                            "is supposed to return",
                            self.fn_return_type_name,
                            f.expr.result.type_name))
             ELSE FilledStatement(NoError, [stmt EXCEPT !.expr = f.expr],
                                  self.local_variables)
        ELSE IF self.fn_return_type_name # None
             THEN raise(TypePropagationError(
                            "is supposed to return a value",
                            self.fn_return_type_name, ""))
             ELSE FilledStatement(NoError, stmt, self.local_variables)

\* The WhileStatement branch of fill_statements: f is the filled condition
\* and b the filled body.
fill_while_statement_checked(stmt, self, f, b) ==
    IF f.error # NoError
    THEN FilledStatement(f.error, stmt, self.local_variables)
    ELSE IF b.error # NoError
    THEN FilledStatement(b.error, stmt, self.local_variables)
    ELSE FilledStatement(
             NoError, [stmt EXCEPT !.expr = f.expr, !.body = b.statements],
             b.local_variables)

RECURSIVE fill_statements(_, _)

\* The else_body of an IfStatement, filled after its if_body (b).
fill_else_body(stmt, self, b) ==
    IF stmt.else_body # <<>> /\ b.error = NoError
    THEN fill_statements(stmt.else_body,
                         [self EXCEPT !.local_variables = b.local_variables])
    ELSE FilledStatements(NoError, <<>>, b.local_variables)

\* The bodies of an IfStatement.
fill_if_bodies(stmt, self, f, b) ==
    fill_if_statement_checked(stmt, self, f, b, fill_else_body(stmt, self, b))

\* One turn of the loop of fill_statements.
fill_statement(stmt, self) ==
    CASE stmt.cls = "VariableStatement" -> fill_variable_statement(stmt, self)
      [] stmt.cls = "CallStatement" ->
            fill_call_statement_checked(stmt, self,
                                        fill_call_expr(stmt.expr, self))
      [] stmt.cls = "IfStatement" ->
            fill_if_bodies(stmt, self, fill_expr(stmt.expr, self),
                           fill_statements(stmt.body, self))
      [] stmt.cls = "ReturnStatement" ->
            fill_return_statement_checked(stmt, self,
                                          fill_expr(stmt.expr, self))
      [] stmt.cls = "WhileStatement" ->
            fill_while_statement_checked(stmt, self,
                                         fill_expr(stmt.expr, self),
                                         fill_statements(stmt.body, self))
      [] OTHER -> FilledStatement(NoError, stmt, self.local_variables)

RECURSIVE fill_statements_from(_, _, _)

\* The rest of the loop, once statement i is filled (f).
fill_statements_next(i, statements, self, f) ==
    IF f.error # NoError
    THEN FilledStatements(f.error, statements, self.local_variables)
    ELSE fill_statements_from(
             i + 1, [statements EXCEPT ![i] = f.statement],
             [self EXCEPT !.local_variables = f.local_variables])

fill_statements_from(i, statements, self) ==
    IF i > Len(statements)
    THEN FilledStatements(
             NoError, statements,
             remove_local_variables_in_statements(1, statements,
                                                  self.local_variables))
    ELSE fill_statements_next(i, statements, self,
                              fill_statement(statements[i], self))

fill_statements(statements, self) == fill_statements_from(1, statements, self)

RECURSIVE add_argument_variables_shadowing(_, _, _, _)
\* A faulty variant of add_argument_variables_from, whose
\* add_local_variable takes the name of a global.
add_argument_variables_shadowing(i, arguments, locals, globals) ==
    IF i > Len(arguments)
    THEN [error |-> NoError, local_variables |-> locals]
    ELSE IF locals[arguments[i].name] # NoResult
    THEN [error |-> TypePropagationError("shadows an earlier local variable",
                                         "", ""),
          local_variables |-> locals]
    ELSE add_argument_variables_shadowing(
             i + 1, arguments,
             [locals EXCEPT ![arguments[i].name] =
                 Result(parse_type(arguments[i].type_name),
                        arguments[i].type_name)],
             globals)

RECURSIVE add_argument_variables_from(_, _, _, _)
\* add_local_variable for each argument, starting from no local variables
add_argument_variables_from(i, arguments, locals, globals) ==
    IF i > Len(arguments)
    THEN [error |-> NoError, local_variables |-> locals]
    ELSE IF locals[arguments[i].name] # NoResult
    THEN [error |-> TypePropagationError("shadows an earlier local variable",
                                         "", ""),
          local_variables |-> locals]
    ELSE IF globals[arguments[i].name] # NoResult
    THEN [error |-> TypePropagationError("shadows an earlier global variable",
                                         "", ""),
          local_variables |-> locals]
    ELSE add_argument_variables_from(
             i + 1, arguments,
             [locals EXCEPT ![arguments[i].name] =
                 Result(parse_type(arguments[i].type_name),
                        arguments[i].type_name)],
             globals)

add_argument_variables(arguments, globals) ==
    add_argument_variables_from(1, arguments, NoVariables, globals)

----------------------------------------------------------------------------
(* TypePropagator.fill: its three steps *)

\* The constructor has run on the AST of the file.
TpInit ==
    /\ ast \in Programs
    /\ tp_pc = "fill_global_variables"
    /\ tp_error = NoError
    /\ global_variables = NoVariables

\* No file is being compiled.
TpIdle ==
    /\ ast = <<>>
    /\ tp_pc = "idle"
    /\ tp_error = NoError
    /\ global_variables = NoVariables

\* TypePropagationError leaves fill.  The annotations made before the raise
\* are dropped with the AST of the rejected file.
Raised(error) ==
    /\ tp_pc' = "error"
    /\ tp_error' = error
    /\ UNCHANGED <<ast, global_variables>>

RECURSIVE check_global_expr(_)
\* TRUE when the initializer calls a helper function.
check_global_expr(expr) ==
    \/ expr.cls = "CallExpr" /\ expr.x \in HelperFnNames
    \/ \E i \in 1..Len(expr.exprs) : check_global_expr(expr.exprs[i])

RECURSIVE fill_global_variables_from(_, _, _)

\* A faulty variant of fill_global_variable_checked, whose
\* add_global_variable takes a name that is already a global.
fill_global_variable_renamed(i, statements, globals, f) ==
    LET stmt == statements[i]
        raise(error) ==
            [error |-> error, ast |-> statements, global_variables |-> globals]
    IN  IF check_global_expr(stmt.expr)
        THEN raise(TypePropagationError(
                       "global variable calls a helper function", "", ""))
        ELSE IF f.error # NoError THEN raise(f.error)
        ELSE IF stmt.expr.cls = "IdentifierExpr" /\ stmt.expr.x = "me"
        THEN raise(TypePropagationError(
                       "global variables can't be assigned me", "", ""))
        ELSE IF is_incompatible(stmt.type_name, f.expr.result)
        THEN raise(TypePropagationError("can't assign", stmt.type_name,
                                        f.expr.result.type_name))
        ELSE fill_global_variables_from(
                 i + 1, [statements EXCEPT ![i].expr = f.expr],
                 [globals EXCEPT ![stmt.name] =
                     Result(parse_type(stmt.type_name), stmt.type_name)])

\* One turn of the loop of fill_global_variables, on the VariableStatement
\* statements[i], f being its filled initializer.
fill_global_variable_checked(i, statements, globals, f) ==
    LET stmt == statements[i]
        raise(error) ==
            [error |-> error, ast |-> statements, global_variables |-> globals]
    IN  IF check_global_expr(stmt.expr)
        THEN raise(TypePropagationError(
                       "global variable calls a helper function", "", ""))
        ELSE IF f.error # NoError THEN raise(f.error)
        ELSE IF stmt.expr.cls = "IdentifierExpr" /\ stmt.expr.x = "me"
        THEN raise(TypePropagationError(
                       "global variables can't be assigned me", "", ""))
        ELSE IF is_incompatible(stmt.type_name, f.expr.result)
        THEN raise(TypePropagationError("can't assign", stmt.type_name,
                                        f.expr.result.type_name))
        ELSE IF globals[stmt.name] # NoResult
        THEN raise(TypePropagationError(
                       "shadows an earlier global variable", "", ""))
        ELSE fill_global_variables_from(
                 i + 1, [statements EXCEPT ![i].expr = f.expr],
                 [globals EXCEPT ![stmt.name] =
                     Result(parse_type(stmt.type_name), stmt.type_name)])

fill_global_variables_from(i, statements, globals) ==
    IF i > Len(statements)
    THEN [error |-> NoError, ast |-> statements, global_variables |-> globals]
    ELSE IF statements[i].cls # "VariableStatement"
    THEN fill_global_variables_from(i + 1, statements, globals)
    ELSE fill_global_variable_checked(
             i, statements, globals,
             fill_expr(statements[i].expr, Self(NoVariables, globals, None)))

\* The end of fill_global_variables, f being what its loop came to.
fill_global_variables_ends(f) ==
    IF f.error # NoError THEN Raised(f.error)
    ELSE /\ ast' = f.ast
         /\ global_variables' = f.global_variables
         /\ tp_pc' = "fill_on_fns"
         /\ UNCHANGED tp_error

fill_global_variables ==
    /\ tp_pc = "fill_global_variables"
    /\ fill_global_variables_ends(
           fill_global_variables_from(
               1, ast,
               [NoVariables EXCEPT !["me"] = Result("ID", file_entity_type)]))
    /\ UNCHANGED not_tp_vars

is_wrong_type(a, b, a_name, b_name) ==
    IF a # b THEN TRUE
    ELSE IF a # "ID" THEN FALSE
    ELSE a_name # b_name

\* The first fault in the signature of an on_ function, against the
\* parameters the mod API declares for it.
RECURSIVE on_fn_signature_from(_, _, _)
on_fn_signature_from(i, arguments, params) ==
    IF i > Len(arguments) \/ i > Len(params) THEN NoError
    ELSE IF arguments[i].name # params[i].name
    THEN TypePropagationError("parameter was supposed to be named",
                              params[i].name, arguments[i].name)
    ELSE IF is_wrong_type(parse_type(arguments[i].type_name),
                          parse_type(params[i].type_name),
                          arguments[i].type_name, params[i].type_name)
    THEN TypePropagationError("parameter was supposed to have the type",
                              params[i].type_name, arguments[i].type_name)
    ELSE on_fn_signature_from(i + 1, arguments, params)

\* self.entity_on_functions[expected_fn_name].get("arguments", [])
params_of(expected) == expected.arguments

\* parser_on_fn_names.index(fn_name)
parser_index(i) == Cardinality({j \in on_fns : j < i})

RECURSIVE fill_on_fns_from(_, _, _)

\* A faulty variant of fill_on_fn_checked, which leaves out the test of the
\* order.
fill_on_fn_any_order(k, statements, i, previous_on_fn_index, signature, args, f) ==
    LET fn == statements[i]
        params == params_of(entity_on_functions[k])
        raise(error) == [error |-> error, ast |-> statements]
    IN  IF Len(fn.arguments) < Len(params)
        THEN raise(TypePropagationError("expected the parameter", "", ""))
        ELSE IF Len(fn.arguments) > Len(params)
        THEN raise(TypePropagationError("unexpected extra parameter",
                                        "", ""))
        ELSE IF signature # NoError THEN raise(signature)
        ELSE IF args.error # NoError THEN raise(args.error)
        ELSE IF f.error # NoError THEN raise(f.error)
        ELSE fill_on_fns_from(
                 k + 1, [statements EXCEPT ![i].body_statements = f.statements],
                 parser_index(i))

\* One turn of the second loop of fill_on_fns, on the on_ function
\* statements[i] that the entity declares as entity_on_functions[k]:
\* signature is the first fault in its signature, args what
\* add_argument_variables gave, and f its filled body.
fill_on_fn_checked(k, statements, i, previous_on_fn_index, signature, args, f) ==
    LET fn == statements[i]
        params == params_of(entity_on_functions[k])
        raise(error) == [error |-> error, ast |-> statements]
    IN  IF previous_on_fn_index > parser_index(i)
        THEN raise(TypePropagationError(
                       "needs to be moved before/after a different on_ function",
                       "", ""))
        ELSE IF Len(fn.arguments) < Len(params)
        THEN raise(TypePropagationError("expected the parameter", "", ""))
        ELSE IF Len(fn.arguments) > Len(params)
        THEN raise(TypePropagationError("unexpected extra parameter",
                                        "", ""))
        ELSE IF signature # NoError THEN raise(signature)
        ELSE IF args.error # NoError THEN raise(args.error)
        ELSE IF f.error # NoError THEN raise(f.error)
        ELSE fill_on_fns_from(
                 k + 1, [statements EXCEPT ![i].body_statements = f.statements],
                 parser_index(i))

\* The on_ function statements[i], with its arguments (args) as the local
\* variables.
fill_on_fn(k, statements, i, previous_on_fn_index, args) ==
    fill_on_fn_checked(
        k, statements, i, previous_on_fn_index,
        on_fn_signature_from(1, statements[i].arguments,
                             params_of(entity_on_functions[k])),
        args,
        fill_statements(statements[i].body_statements,
                        Self(args.local_variables, global_variables, None)))

\* The on_ functions of the file that are named as entity_on_functions[k].
defined_as(k, statements) ==
    {i \in on_fns : statements[i].fn_name = entity_on_functions[k].name}

fill_on_fns_from(k, statements, previous_on_fn_index) ==
    IF k > Len(entity_on_functions)
    THEN [error |-> NoError, ast |-> statements]
    ELSE IF defined_as(k, statements) = {}
    THEN fill_on_fns_from(k + 1, statements, previous_on_fn_index)
    ELSE fill_on_fn(
             k, statements, CHOOSE i \in defined_as(k, statements) : TRUE,
             previous_on_fn_index,
             add_argument_variables(
                 statements[CHOOSE i \in defined_as(k, statements) : TRUE]
                     .arguments,
                 global_variables))

\* The end of fill_on_fns, f being what its second loop came to.
fill_on_fns_ends(f) ==
    IF \E i \in on_fns :
           ast[i].fn_name \notin {entity_on_functions[k].name :
                                     k \in 1..Len(entity_on_functions)}
    THEN Raised(TypePropagationError("was not declared by the entity",
                                     "", ""))
    ELSE IF f.error # NoError THEN Raised(f.error)
    ELSE /\ ast' = f.ast
         /\ tp_pc' = "fill_helper_fns"
         /\ UNCHANGED <<tp_error, global_variables>>

fill_on_fns ==
    /\ tp_pc = "fill_on_fns"
    /\ fill_on_fns_ends(fill_on_fns_from(1, ast, 0))
    /\ UNCHANGED not_tp_vars

RECURSIVE fill_helper_fns_from(_, _)

\* One turn of the loop of fill_helper_fns, on the helper statements[i]:
\* args is what add_argument_variables gave and f its filled body.
fill_helper_fn_checked(i, statements, args, f) ==
    LET fn == statements[i]
        body == fn.body_statements
        raise(error) == [error |-> error, ast |-> statements]
    IN  IF args.error # NoError THEN raise(args.error)
        ELSE IF f.error # NoError THEN raise(f.error)
        ELSE IF /\ fn.return_type_name # None
                /\ (IF body = <<>> THEN TRUE
                    ELSE body[Len(body)].cls # "ReturnStatement")
        THEN raise(TypePropagationError(
                       "is supposed to return as its last line",
                       fn.return_type_name, ""))
        ELSE fill_helper_fns_from(
                 i + 1, [statements EXCEPT ![i].body_statements = f.statements])

\* The helper statements[i], with its arguments (args) as the local
\* variables.
fill_helper_fn(i, statements, args) ==
    fill_helper_fn_checked(
        i, statements, args,
        fill_statements(statements[i].body_statements,
                        Self(args.local_variables, global_variables,
                             statements[i].return_type_name)))

fill_helper_fns_from(i, statements) ==
    IF i > Len(statements) THEN [error |-> NoError, ast |-> statements]
    ELSE IF statements[i].cls # "HelperFn"
    THEN fill_helper_fns_from(i + 1, statements)
    ELSE fill_helper_fn(
             i, statements,
             add_argument_variables(statements[i].arguments,
                                    global_variables))

\* The end of fill_helper_fns, f being what its loop came to.
fill_helper_fns_ends(f) ==
    IF f.error # NoError THEN Raised(f.error)
    ELSE /\ ast' = f.ast
         /\ tp_pc' = "filled"
         /\ UNCHANGED <<tp_error, global_variables>>

fill_helper_fns ==
    /\ tp_pc = "fill_helper_fns"
    /\ fill_helper_fns_ends(fill_helper_fns_from(1, ast))
    /\ UNCHANGED not_tp_vars

----------------------------------------------------------------------------
(* The token streams that are parsed *)

\* A token of tokenizer.py: its TokenType and its text.
Token(type, value) == [type |-> type, value |-> value]

Word(value) == Token("WORD_TOKEN", value)

Space == Token("SPACE_TOKEN", " ")

Newline == Token("NEWLINE_TOKEN", "\n")

Open == Token("OPEN_PARENTHESIS_TOKEN", "(")

Close == Token("CLOSE_PARENTHESIS_TOKEN", ")")

\* len(value), for the text of the indentation tokens
len(value) ==
    CASE value = "    " -> 4
      [] value = "        " -> 8
      [] value = "            " -> 12
      [] value = "                " -> 16
      [] OTHER -> 1

SPACES_PER_INDENT == 4

\* What the tokenizer makes of the call fn_name(), with the tokens of the
\* argument between the parentheses.
CallTokens(fn_name, argument) == <<Word(fn_name), Open>> \o argument \o <<Close>>

\* The line  g: number = helper_f() + 1
GlobalLine ==
    <<Word("g"), Token("COLON_TOKEN", ":"), Space, Word("number"), Space,
      Token("ASSIGNMENT_TOKEN", "="), Space>>
    \o CallTokens("helper_f", <<>>)
    \o <<Space, Token("PLUS_TOKEN", "+"), Space, Token("NUMBER_TOKEN", "1"),
         Newline>>

\* The lines of a function with no parameters and one statement.
FnLines(fn_name, statement) ==
    <<Word(fn_name), Open, Close, Space, Token("OPEN_BRACE_TOKEN", "{"),
      Newline, Token("INDENTATION_TOKEN", "    ")>>
    \o statement
    \o <<Newline, Token("CLOSE_BRACE_TOKEN", "}"), Newline>>

\* The statements of on_a: a call of helper_f, a call of helper_g as an
\* argument, and helper_f named without being called.
OnFnStatements ==
    {CallTokens("helper_f", <<>>),
     CallTokens("nothing", CallTokens("helper_g", <<>>)),
     <<Word("x"), Space, Token("ASSIGNMENT_TOKEN", "="), Space,
       Word("helper_f")>>}

\* The statements of a helper: a call of a game function and a call of
\* helper_f.
HelperFnStatements ==
    {CallTokens("nothing", <<>>), CallTokens("helper_f", <<>>)}

\* What a file is put together from: a global variable, an on_ function, a
\* helper function, an empty line, a comment and a stray number.
Items ==
    {GlobalLine, <<Newline>>, <<Token("COMMENT_TOKEN", "hi"), Newline>>,
     <<Token("NUMBER_TOKEN", "1"), Newline>>}
    \cup {FnLines("on_a", s) : s \in OnFnStatements}
    \cup {FnLines(fn_name, s) :
             fn_name \in {"helper_f", "helper_g"}, s \in HelperFnStatements}

RECURSIVE Concatenated(_)
Concatenated(items) ==
    IF items = <<>> THEN <<>> ELSE Head(items) \o Concatenated(Tail(items))

\* The token streams of the files of at most MaxItems of the given items.
FilesFrom(file_items) ==
    {Concatenated(items) :
        items \in UNION {[1..n -> file_items] : n \in 0..MaxItems}}

\* What the body of a function is put together from: a call, an empty
\* line, and a line of nothing but the indentation of the body.
BodyLines ==
    {<<Token("INDENTATION_TOKEN", "    ")>> \o CallTokens("nothing", <<>>)
         \o <<Newline>>,
     <<Newline>>,
     <<Token("INDENTATION_TOKEN", "    "), Newline>>}

\* The token streams of the files of one on_a of at most MaxLines such
\* lines.
BodyFiles ==
    {<<Word("on_a"), Open, Close, Space, Token("OPEN_BRACE_TOKEN", "{"),
       Newline>>
     \o Concatenated(lines)
     \o <<Token("CLOSE_BRACE_TOKEN", "}"), Newline>> :
        lines \in UNION {[1..n -> BodyLines] : n \in 1..MaxLines}}

----------------------------------------------------------------------------
(* Parser: expressions *)

NoParserError == "none"

OutOfBounds == "token_index was out of bounds in peek_token()"

\* What the methods read and write of self, but for the token index.
\* parsing_depth is left out: no file nests MAX_PARSING_DEPTH levels.
\* loop_depth is 0 wherever a definition of the file starts.
ParserSelf(called, indent) ==
    [called_helper_fn_names |-> called, indentation |-> indent,
     loop_depth |-> 0]

\* What a parse_ method comes to: the ParserError it raised if any, the
\* token index i[0] and self as it left them, and the node it returned.
Parsed(error, i, self, node) ==
    [error |-> error, i |-> i, self |-> self, node |-> node]

\* assert_token_type: the error it raises, if any.
assert_token_type(index, expected_type) ==
    IF index > Len(tokens) THEN OutOfBounds
    ELSE IF tokens[index].type # expected_type
    THEN "Expected token type"
    ELSE NoParserError

\* consume_space: the error it raises, if any.
consume_space(i) ==
    IF i > Len(tokens) THEN OutOfBounds
    ELSE IF tokens[i].type # "SPACE_TOKEN"
    THEN "Expected token type SPACE_TOKEN"
    ELSE NoParserError

RECURSIVE parse_expression(_, _)

\* parse_primary once the expression between the parentheses is parsed (e).
parse_primary_parenthesized(e) ==
    IF e.error # NoParserError THEN e
    ELSE IF assert_token_type(e.i, "CLOSE_PARENTHESIS_TOKEN") # NoParserError
    THEN Parsed(assert_token_type(e.i, "CLOSE_PARENTHESIS_TOKEN"), e.i,
                e.self, NoExpr)
    ELSE Parsed(NoParserError, e.i + 1, e.self, ParenthesizedExpr(e.node))

parse_primary(i, self) ==
    IF i > Len(tokens) THEN Parsed(OutOfBounds, i, self, NoExpr)
    ELSE CASE tokens[i].type = "OPEN_PARENTHESIS_TOKEN" ->
                  parse_primary_parenthesized(parse_expression(i + 1, self))
           [] tokens[i].type = "TRUE_TOKEN" ->
                  Parsed(NoParserError, i + 1, self, TrueExpr)
           [] tokens[i].type = "STRING_TOKEN" ->
                  Parsed(NoParserError, i + 1, self, StringExpr)
           [] tokens[i].type = "WORD_TOKEN" ->
                  Parsed(NoParserError, i + 1, self,
                         IdentifierExpr(tokens[i].value))
           [] tokens[i].type = "NUMBER_TOKEN" ->
                  Parsed(NoParserError, i + 1, self, NumberExpr)
           [] OTHER ->
                  Parsed("Expected a primary expression token", i, self,
                         NoExpr)

RECURSIVE parse_call_arguments(_, _, _)
\* The loop of parse_call over the arguments, a being the argument that
\* was just parsed.
parse_call_arguments(fn_name, arguments, a) ==
    IF a.error # NoParserError THEN a
    ELSE IF a.i > Len(tokens) THEN Parsed(OutOfBounds, a.i, a.self, NoExpr)
    ELSE IF tokens[a.i].type # "COMMA_TOKEN"
    THEN IF tokens[a.i].type # "CLOSE_PARENTHESIS_TOKEN"
         THEN Parsed("Expected token type", a.i, a.self, NoExpr)
         ELSE Parsed(NoParserError, a.i + 1, a.self,
                     CallExpr(fn_name, Append(arguments, a.node)))
    ELSE IF consume_space(a.i + 1) # NoParserError
    THEN Parsed(consume_space(a.i + 1), a.i + 1, a.self, NoExpr)
    ELSE parse_call_arguments(fn_name, Append(arguments, a.node),
                              parse_expression(a.i + 2, a.self))

\* parse_call from the open parenthesis at token i on, the name being
\* recorded in self.
parse_call_named(fn_name, i, self) ==
    IF i + 1 > Len(tokens) THEN Parsed(OutOfBounds, i + 1, self, NoExpr)
    ELSE IF tokens[i + 1].type = "CLOSE_PARENTHESIS_TOKEN"
    THEN Parsed(NoParserError, i + 2, self, CallExpr(fn_name, <<>>))
    ELSE parse_call_arguments(fn_name, <<>>, parse_expression(i + 1, self))

\* parse_call from the open parenthesis on, p being the identifier before
\* it: fn_name.startswith("helper_") is fn_name \in HelperFnNames.
parse_call_recorded(p) ==
    parse_call_named(
        p.node.x, p.i,
        IF p.node.x \in HelperFnNames
        THEN [p.self EXCEPT !.called_helper_fn_names = @ \cup {p.node.x}]
        ELSE p.self)

\* parse_call once parse_primary has returned (p).
parse_call_checked(p) ==
    IF p.error # NoParserError THEN p
    ELSE IF p.i > Len(tokens) THEN Parsed(OutOfBounds, p.i, p.self, NoExpr)
    ELSE IF tokens[p.i].type # "OPEN_PARENTHESIS_TOKEN" THEN p
    ELSE IF p.node.cls # "IdentifierExpr"
    THEN Parsed("Unexpected '(' after non-identifier", p.i, p.self, NoExpr)
    ELSE parse_call_recorded(p)

parse_call(i, self) == parse_call_checked(parse_primary(i, self))

RECURSIVE parse_unary(_, _)

\* parse_unary once its operand is parsed (u).
parse_unary_checked(operator, u) ==
    IF u.error # NoParserError THEN u
    ELSE Parsed(NoParserError, u.i, u.self, UnaryExpr(operator, u.node))

parse_unary(i, self) ==
    IF i > Len(tokens) THEN Parsed(OutOfBounds, i, self, NoExpr)
    ELSE IF tokens[i].type = "MINUS_TOKEN"
    THEN parse_unary_checked("MINUS_TOKEN", parse_unary(i + 1, self))
    ELSE IF tokens[i].type = "NOT_TOKEN"
    THEN IF consume_space(i + 1) # NoParserError
         THEN Parsed(consume_space(i + 1), i + 1, self, NoExpr)
         ELSE parse_unary_checked("NOT_TOKEN", parse_unary(i + 2, self))
    ELSE parse_call(i, self)

\* A faulty variant of operators_of, in which parse_factor has the additive
\* operators and parse_term the multiplicative ones.
operators_of_additive_first(level) ==
    CASE level = 1 -> {"PLUS_TOKEN", "MINUS_TOKEN"}
      [] level = 2 -> {"MULTIPLICATION_TOKEN", "DIVISION_TOKEN"}
      [] level = 3 -> {"GREATER_OR_EQUAL_TOKEN", "GREATER_TOKEN",
                       "LESS_OR_EQUAL_TOKEN", "LESS_TOKEN"}
      [] level = 4 -> {"EQUALS_TOKEN", "NOT_EQUALS_TOKEN"}
      [] level = 5 -> {"AND_TOKEN"}
      [] level = 6 -> {"OR_TOKEN"}

\* The operators of parse_factor, parse_term, parse_comparison,
\* parse_equality, parse_and and parse_or, which are the levels 1 to 6.
operators_of(level) ==
    CASE level = 1 -> {"MULTIPLICATION_TOKEN", "DIVISION_TOKEN"}
      [] level = 2 -> {"PLUS_TOKEN", "MINUS_TOKEN"}
      [] level = 3 -> {"GREATER_OR_EQUAL_TOKEN", "GREATER_TOKEN",
                       "LESS_OR_EQUAL_TOKEN", "LESS_TOKEN"}
      [] level = 4 -> {"EQUALS_TOKEN", "NOT_EQUALS_TOKEN"}
      [] level = 5 -> {"AND_TOKEN"}
      [] level = 6 -> {"OR_TOKEN"}

RECURSIVE parse_operand(_, _, _)

RECURSIVE parse_operators(_, _)

\* The loop of a level once the right operand is parsed (r).
parse_right_operand(level, l, operator, r) ==
    IF r.error # NoParserError THEN r
    ELSE parse_operators(
             level,
             Parsed(NoParserError, r.i, r.self,
                    IF level >= 5 THEN LogicalExpr(l.node, operator, r.node)
                    ELSE BinaryExpr(l.node, operator, r.node)))

\* The loop of a level, l being the expression parsed so far.
parse_operators(level, l) ==
    IF l.error # NoParserError THEN l
    ELSE IF l.i > Len(tokens) THEN Parsed(OutOfBounds, l.i, l.self, NoExpr)
    ELSE IF tokens[l.i].type # "SPACE_TOKEN" THEN l
    ELSE IF l.i + 1 > Len(tokens)
    THEN Parsed(OutOfBounds, l.i + 1, l.self, NoExpr)
    ELSE IF tokens[l.i + 1].type \notin operators_of(level) THEN l
    ELSE IF consume_space(l.i + 2) # NoParserError
    THEN Parsed(consume_space(l.i + 2), l.i + 2, l.self, NoExpr)
    ELSE parse_right_operand(level, l, tokens[l.i + 1].type,
                             parse_operand(level, l.i + 3, l.self))

\* An operand of a level: parse_unary for parse_factor, the level below
\* for the others.
parse_operand(level, i, self) ==
    IF level = 1 THEN parse_unary(i, self)
    ELSE parse_operators(level - 1, parse_operand(level - 1, i, self))

parse_or(i, self) == parse_operators(6, parse_operand(6, i, self))

parse_expression(i, self) == parse_or(i, self)

----------------------------------------------------------------------------
(* Parser: statements and functions *)

EmptyLineStatement ==
    Statement("EmptyLineStatement", "", None, NoExpr, <<>>, <<>>)

CommentStatement(string) ==
    Statement("CommentStatement", string, None, NoExpr, <<>>, <<>>)

\* parse_local_variable and parse_global_variable once the assigned
\* expression is parsed (e).
parse_variable_checked(name, type_name, e) ==
    IF e.error # NoParserError THEN e
    ELSE Parsed(NoParserError, e.i, e.self,
                VariableStatement(name, type_name, e.node))

\* parse_local_variable from the space before the assignment on, at token i.
parse_local_variable_assigned(name, type_name, i, self) ==
    LET raise(error) == Parsed(error, i, self, NoExpr)
    IN  IF i > Len(tokens) THEN raise(OutOfBounds)
        ELSE IF tokens[i].type # "SPACE_TOKEN"
        THEN raise("The variable was not assigned a value")
        ELSE IF assert_token_type(i + 1, "ASSIGNMENT_TOKEN") # NoParserError
        THEN raise(assert_token_type(i + 1, "ASSIGNMENT_TOKEN"))
        ELSE IF name = "me"
        THEN raise("Assigning a new value to the entity's 'me' variable")
        ELSE IF consume_space(i + 2) # NoParserError
        THEN raise(consume_space(i + 2))
        ELSE parse_variable_checked(name, type_name,
                                    parse_expression(i + 3, self))

parse_local_variable(i, self) ==
    LET var_name == tokens[i].value
        raise(error) == Parsed(error, i, self, NoExpr)
    IN  IF i + 1 > Len(tokens) THEN raise(OutOfBounds)
        ELSE IF tokens[i + 1].type # "COLON_TOKEN"
        THEN parse_local_variable_assigned(var_name, None, i + 1, self)
        ELSE IF var_name = "me"
        THEN raise("The local variable 'me' has to have its name changed")
        ELSE IF consume_space(i + 2) # NoParserError
        THEN raise(consume_space(i + 2))
        ELSE IF i + 3 > Len(tokens) THEN raise(OutOfBounds)
        ELSE IF tokens[i + 3].type # "WORD_TOKEN"
        THEN raise("Expected a word token after the colon")
        ELSE IF parse_type(tokens[i + 3].value) \in {"RESOURCE", "ENTITY"}
        THEN raise("The variable can't have this type")
        ELSE parse_local_variable_assigned(var_name, tokens[i + 3].value,
                                           i + 4, self)

parse_global_variable(i, self) ==
    LET global_name == tokens[i].value
        raise(error) == Parsed(error, i, self, NoExpr)
    IN  IF global_name = "me"
        THEN raise("The global variable 'me' has to have its name changed")
        ELSE IF assert_token_type(i + 1, "COLON_TOKEN") # NoParserError
        THEN raise(assert_token_type(i + 1, "COLON_TOKEN"))
        ELSE IF consume_space(i + 2) # NoParserError
        THEN raise(consume_space(i + 2))
        ELSE IF i + 3 > Len(tokens) THEN raise(OutOfBounds)
        ELSE IF tokens[i + 3].type # "WORD_TOKEN"
        THEN raise("Expected a word token after the colon")
        ELSE IF parse_type(tokens[i + 3].value) \in {"RESOURCE", "ENTITY"}
        THEN raise("The global variable can't have this type")
        ELSE IF i + 4 > Len(tokens) THEN raise(OutOfBounds)
        ELSE IF tokens[i + 4].type # "SPACE_TOKEN"
        THEN raise("The global variable was not assigned a value")
        ELSE IF assert_token_type(i + 5, "ASSIGNMENT_TOKEN") # NoParserError
        THEN raise(assert_token_type(i + 5, "ASSIGNMENT_TOKEN"))
        ELSE IF consume_space(i + 6) # NoParserError
        THEN raise(consume_space(i + 6))
        ELSE parse_variable_checked(global_name, tokens[i + 3].value,
                                    parse_expression(i + 7, self))

\* The CallStatement of parse_statement once the call is parsed (c).
parse_call_statement_checked(c) ==
    IF c.error # NoParserError THEN c
    ELSE Parsed(NoParserError, c.i, c.self, CallStatement(c.node))

\* The ReturnStatement branch of parse_statement once the value is parsed
\* (e).
parse_return_statement_checked(e) ==
    IF e.error # NoParserError THEN e
    ELSE Parsed(NoParserError, e.i, e.self, ReturnStatement(e.node))

RECURSIVE parse_statements(_, _)

RECURSIVE parse_if_statement(_, _)

\* parse_if_statement once the statements after else are parsed (b).
parse_if_statement_else(condition, if_body, b) ==
    IF b.error # NoParserError THEN Parsed(b.error, b.i, b.self, NoExpr)
    ELSE Parsed(NoParserError, b.i, b.self,
                IfStatement(condition, if_body, b.node))

\* parse_if_statement once the if statement after else is parsed (s).
parse_if_statement_else_if(condition, if_body, s) ==
    IF s.error # NoParserError THEN s
    ELSE Parsed(NoParserError, s.i, s.self,
                IfStatement(condition, if_body, <<s.node>>))

\* parse_if_statement once if_body is parsed (b).
parse_if_statement_body(condition, b) ==
    LET raise(error, i) == Parsed(error, i, b.self, NoExpr)
    IN  IF b.error # NoParserError THEN raise(b.error, b.i)
        ELSE IF b.i > Len(tokens) THEN raise(OutOfBounds, b.i)
        ELSE IF tokens[b.i].type # "SPACE_TOKEN"
        THEN Parsed(NoParserError, b.i, b.self,
                    IfStatement(condition, b.node, <<>>))
        ELSE IF assert_token_type(b.i + 1, "ELSE_TOKEN") # NoParserError
        THEN raise(assert_token_type(b.i + 1, "ELSE_TOKEN"), b.i + 1)
        ELSE IF b.i + 2 > Len(tokens) THEN raise(OutOfBounds, b.i + 2)
        ELSE IF tokens[b.i + 2].type # "SPACE_TOKEN"
        THEN parse_if_statement_else(condition, b.node,
                                     parse_statements(b.i + 2, b.self))
        ELSE IF b.i + 3 > Len(tokens) THEN raise(OutOfBounds, b.i + 2)
        ELSE IF tokens[b.i + 3].type = "IF_TOKEN"
        THEN parse_if_statement_else_if(condition, b.node,
                                        parse_if_statement(b.i + 4, b.self))
        ELSE parse_if_statement_else(condition, b.node,
                                     parse_statements(b.i + 2, b.self))

\* parse_if_statement once the condition is parsed (c).
parse_if_statement_condition(c) ==
    IF c.error # NoParserError THEN c
    ELSE parse_if_statement_body(c.node, parse_statements(c.i, c.self))

parse_if_statement(i, self) ==
    IF consume_space(i) # NoParserError
    THEN Parsed(consume_space(i), i, self, NoExpr)
    ELSE parse_if_statement_condition(parse_expression(i + 1, self))

RECURSIVE parse_while_statement(_, _)

parse_statement(i, self) ==
    LET raise(error) == Parsed(error, i, self, NoExpr)
    IN  IF i > Len(tokens) THEN raise(OutOfBounds)
        ELSE IF tokens[i].type = "WORD_TOKEN"
        THEN IF i + 1 > Len(tokens) THEN raise(OutOfBounds)
             ELSE IF tokens[i + 1].type = "OPEN_PARENTHESIS_TOKEN"
             THEN parse_call_statement_checked(parse_call(i, self))
             ELSE IF tokens[i + 1].type \in {"COLON_TOKEN", "SPACE_TOKEN"}
             THEN parse_local_variable(i, self)
             ELSE raise("Expected '(', or ':', or ' =' after the word")
        ELSE IF tokens[i].type = "IF_TOKEN"
        THEN parse_if_statement(i + 1, self)
        ELSE IF tokens[i].type = "RETURN_TOKEN"
        THEN IF i + 1 > Len(tokens) THEN raise(OutOfBounds)
             ELSE IF tokens[i + 1].type = "NEWLINE_TOKEN"
             THEN Parsed(NoParserError, i + 1, self, ReturnStatement(NoExpr))
             ELSE IF consume_space(i + 1) # NoParserError
             THEN Parsed(consume_space(i + 1), i + 1, self, NoExpr)
             ELSE parse_return_statement_checked(
                      parse_expression(i + 2, self))
        ELSE IF tokens[i].type = "WHILE_TOKEN"
        THEN parse_while_statement(i + 1, self)
        ELSE IF tokens[i].type = "BREAK_TOKEN"
        THEN IF self.loop_depth = 0
             THEN raise("There is a break statement that isn't inside of a "
                        \o "while loop")
             ELSE Parsed(NoParserError, i + 1, self, BreakStatement)
        ELSE IF tokens[i].type = "CONTINUE_TOKEN"
        THEN IF self.loop_depth = 0
             THEN raise("There is a continue statement that isn't inside of "
                        \o "a while loop")
             ELSE Parsed(NoParserError, i + 1, self, ContinueStatement)
        ELSE IF tokens[i].type = "NEWLINE_TOKEN"
        THEN Parsed(NoParserError, i + 1, self, EmptyLineStatement)
        ELSE IF tokens[i].type = "COMMENT_TOKEN"
        THEN Parsed(NoParserError, i + 1, self,
                    CommentStatement(tokens[i].value))
        ELSE raise("Expected a statement token")

\* consume_indentation: the error it raises, if any.
consume_indentation(i, self) ==
    IF assert_token_type(i, "INDENTATION_TOKEN") # NoParserError
    THEN assert_token_type(i, "INDENTATION_TOKEN")
    ELSE IF len(tokens[i].value) # self.indentation * SPACES_PER_INDENT
    THEN "Expected a different number of spaces"
    ELSE NoParserError

RECURSIVE parse_statements_from(_, _, _, _, _)

\* The loop of parse_statements once a statement is parsed (s).
parse_statements_next(stmts, seen, s) ==
    IF s.error # NoParserError THEN s
    ELSE IF assert_token_type(s.i, "NEWLINE_TOKEN") # NoParserError
    THEN Parsed(assert_token_type(s.i, "NEWLINE_TOKEN"), s.i, s.self, <<>>)
    ELSE parse_statements_from(s.i + 1, s.self, Append(stmts, s.node),
                               seen, TRUE)

\* parse_statements from the end of its loop on.
parse_statements_end(i, self, stmts, seen, allowed) ==
    LET dedented == [self EXCEPT !.indentation = @ - 1]
        raise(error) == Parsed(error, i, self, <<>>)
    IN  IF seen /\ ~allowed
        THEN raise("Unexpected empty line")
        ELSE IF /\ dedented.indentation > 0
                /\ consume_indentation(i, dedented) # NoParserError
        THEN raise(consume_indentation(i, dedented))
        ELSE IF dedented.indentation > 0
        THEN IF assert_token_type(i + 1, "CLOSE_BRACE_TOKEN") # NoParserError
             THEN raise(assert_token_type(i + 1, "CLOSE_BRACE_TOKEN"))
             ELSE Parsed(NoParserError, i + 2, dedented, stmts)
        ELSE IF assert_token_type(i, "CLOSE_BRACE_TOKEN") # NoParserError
        THEN raise(assert_token_type(i, "CLOSE_BRACE_TOKEN"))
        ELSE Parsed(NoParserError, i + 1, dedented, stmts)

\* The loop of parse_statements, is_end_of_block being its first test.
parse_statements_from(i, self, stmts, seen, allowed) ==
    LET raise(error) == Parsed(error, i, self, <<>>)
    IN  IF i > Len(tokens) THEN raise(OutOfBounds)
        ELSE IF \/ tokens[i].type = "CLOSE_BRACE_TOKEN"
                \/ /\ tokens[i].type = "INDENTATION_TOKEN"
                   /\ len(tokens[i].value)
                          = (self.indentation - 1) * SPACES_PER_INDENT
        THEN parse_statements_end(i, self, stmts, seen,
                                  allowed)
        ELSE IF tokens[i].type = "NEWLINE_TOKEN"
        THEN IF ~allowed THEN raise("Unexpected empty line")
             ELSE parse_statements_from(i + 1, self,
                                        Append(stmts, EmptyLineStatement),
                                        TRUE, FALSE)
        ELSE IF tokens[i].type # "INDENTATION_TOKEN"
        THEN raise("Expected indentation, newline, or '}'")
        ELSE IF consume_indentation(i, self) # NoParserError
        THEN raise(consume_indentation(i, self))
        ELSE parse_statements_next(stmts, seen,
                                   parse_statement(i + 1, self))

parse_statements(i, self) ==
    LET raise(error) == Parsed(error, i, self, <<>>)
        indented == [self EXCEPT !.indentation = @ + 1]
    IN  IF consume_space(i) # NoParserError THEN raise(consume_space(i))
        ELSE IF assert_token_type(i + 1, "OPEN_BRACE_TOKEN") # NoParserError
        THEN raise(assert_token_type(i + 1, "OPEN_BRACE_TOKEN"))
        ELSE IF i + 2 > Len(tokens) THEN raise(OutOfBounds)
        ELSE IF tokens[i + 2].type = "NEWLINE_TOKEN"
        THEN parse_statements_from(i + 3, indented, <<>>, FALSE, FALSE)
        ELSE parse_statements_from(i + 2, indented, <<>>, FALSE, FALSE)

\* parse_while_statement once the condition is parsed (c): the body is
\* parsed with loop_depth one higher.
parse_while_statement_condition(c) ==
    IF c.error # NoParserError THEN c
    ELSE LET b == parse_statements(
                      c.i, [c.self EXCEPT !.loop_depth = @ + 1])
         IN  IF b.error # NoParserError
             THEN Parsed(b.error, b.i, b.self, NoExpr)
             ELSE Parsed(NoParserError, b.i,
                         [b.self EXCEPT !.loop_depth = @ - 1],
                         WhileStatement(c.node, b.node))

parse_while_statement(i, self) ==
    IF consume_space(i) # NoParserError
    THEN Parsed(consume_space(i), i, self, NoExpr)
    ELSE parse_while_statement_condition(parse_expression(i + 1, self))

\* all(isinstance(s, (EmptyLineStatement, CommentStatement)) for s in ...)
is_empty_body(statements) ==
    \A k \in 1..Len(statements) :
        statements[k].cls \in {"EmptyLineStatement", "CommentStatement"}

\* One argument of parse_arguments, its name being at token i: the node is
\* the Argument.
parse_argument(i, self) ==
    LET raise(error) == Parsed(error, i, self, NoExpr)
    IN  IF i > Len(tokens) THEN raise(OutOfBounds)
        ELSE IF assert_token_type(i + 1, "COLON_TOKEN") # NoParserError
        THEN raise(assert_token_type(i + 1, "COLON_TOKEN"))
        ELSE IF consume_space(i + 2) # NoParserError
        THEN raise(consume_space(i + 2))
        ELSE IF assert_token_type(i + 3, "WORD_TOKEN") # NoParserError
        THEN raise(assert_token_type(i + 3, "WORD_TOKEN"))
        ELSE IF parse_type(tokens[i + 3].value) \in {"RESOURCE", "ENTITY"}
        THEN raise("The argument can't have this type")
        ELSE Parsed(NoParserError, i + 4, self,
                    Argument(tokens[i].value, tokens[i + 3].value))

RECURSIVE parse_arguments_from(_, _, _)

\* parse_arguments once an argument is parsed (a).
parse_arguments_next(arguments, a) ==
    IF a.error # NoParserError THEN a
    ELSE parse_arguments_from(a.i, a.self, Append(arguments, a.node))

\* The loop of parse_arguments: every argument after the first one starts
\* with a comma.
parse_arguments_from(i, self, arguments) ==
    LET raise(error) == Parsed(error, i, self, NoExpr)
    IN  IF i > Len(tokens) THEN raise(OutOfBounds)
        ELSE IF tokens[i].type # "COMMA_TOKEN"
        THEN Parsed(NoParserError, i, self, arguments)
        ELSE IF consume_space(i + 1) # NoParserError
        THEN raise(consume_space(i + 1))
        ELSE IF assert_token_type(i + 2, "WORD_TOKEN") # NoParserError
        THEN raise(assert_token_type(i + 2, "WORD_TOKEN"))
        ELSE parse_arguments_next(arguments, parse_argument(i + 2, self))

parse_arguments(i, self) ==
    parse_arguments_next(<<>>, parse_argument(i, self))

\* The arguments of parse_on_fn and parse_helper_fn, the token after the
\* open parenthesis being token i.
parse_fn_arguments(i, self) ==
    IF i > Len(tokens) THEN Parsed(OutOfBounds, i, self, NoExpr)
    ELSE IF tokens[i].type = "WORD_TOKEN" THEN parse_arguments(i, self)
    ELSE Parsed(NoParserError, i, self, <<>>)

\* parse_on_fn and parse_helper_fn once the body is parsed (b).
parse_fn_checked(cls, fn_name, arguments, return_type_name, b) ==
    IF b.error # NoParserError THEN b
    ELSE IF is_empty_body(b.node)
    THEN Parsed("can't be empty", b.i, b.self, NoExpr)
    ELSE Parsed(NoParserError, b.i, b.self,
                Fn(cls, fn_name, arguments, return_type_name, b.node))

\* parse_on_fn once the arguments are parsed (a).
parse_on_fn_arguments(fn_name, a) ==
    IF a.error # NoParserError THEN a
    ELSE IF assert_token_type(a.i, "CLOSE_PARENTHESIS_TOKEN") # NoParserError
    THEN Parsed(assert_token_type(a.i, "CLOSE_PARENTHESIS_TOKEN"), a.i,
                a.self, NoExpr)
    ELSE parse_fn_checked("OnFn", fn_name, a.node, None,
                          parse_statements(a.i + 1, a.self))

parse_on_fn(i, self) ==
    IF assert_token_type(i + 1, "OPEN_PARENTHESIS_TOKEN") # NoParserError
    THEN Parsed(assert_token_type(i + 1, "OPEN_PARENTHESIS_TOKEN"), i, self,
                NoExpr)
    ELSE parse_on_fn_arguments(tokens[i].value,
                               parse_fn_arguments(i + 2, self))

\* parse_helper_fn once the arguments are parsed (a).
parse_helper_fn_arguments(fn_name, a) ==
    LET raise(error) == Parsed(error, a.i, a.self, NoExpr)
        i == a.i + 1
        at_start == [a.self EXCEPT !.indentation = 0]
    IN  IF a.error # NoParserError THEN a
        ELSE IF assert_token_type(a.i, "CLOSE_PARENTHESIS_TOKEN")
                    # NoParserError
        THEN raise(assert_token_type(a.i, "CLOSE_PARENTHESIS_TOKEN"))
        ELSE IF assert_token_type(i, "SPACE_TOKEN") # NoParserError
        THEN raise(assert_token_type(i, "SPACE_TOKEN"))
        ELSE IF i + 1 > Len(tokens) THEN raise(OutOfBounds)
        ELSE IF tokens[i + 1].type # "WORD_TOKEN"
        THEN parse_fn_checked("HelperFn", fn_name, a.node, None,
                              parse_statements(i, at_start))
        ELSE IF parse_type(tokens[i + 1].value) \in {"RESOURCE", "ENTITY"}
        THEN raise("The function can't have this return type")
        ELSE parse_fn_checked("HelperFn", fn_name, a.node,
                              tokens[i + 1].value,
                              parse_statements(i + 2, at_start))

\* parse_helper_fn from the open parenthesis on, the name at token i being
\* one of called_helper_fn_names.
parse_helper_fn_called(i, self) ==
    IF assert_token_type(i + 1, "OPEN_PARENTHESIS_TOKEN") # NoParserError
    THEN Parsed(assert_token_type(i + 1, "OPEN_PARENTHESIS_TOKEN"), i, self,
                NoExpr)
    ELSE parse_helper_fn_arguments(tokens[i].value,
                                   parse_fn_arguments(i + 2, self))

\* A faulty variant of parse_helper_fn, which takes a definition whether
\* or not the name was called.
parse_helper_fn_any_order(i, self) == parse_helper_fn_called(i, self)

parse_helper_fn(i, self) ==
    IF tokens[i].value \notin self.called_helper_fn_names
    THEN Parsed("is defined before the first time it gets called", i, self,
                NoExpr)
    ELSE parse_helper_fn_called(i, self)

----------------------------------------------------------------------------
(* Parser.parse: one action for each turn of its loop *)

\* Parser(tokens) is constructed and parse() has set its locals.
PsInit ==
    /\ tokens \in FilesFrom(Items) \cup BodyFiles
    /\ token_index = 1
    /\ parser_ast = <<>>
    /\ parser_helper_fns = {}
    /\ parser_on_fns = {}
    /\ called_helper_fn_names = {}
    /\ indentation = 0
    /\ seen_on_fn = FALSE
    /\ seen_newline = FALSE
    /\ newline_allowed = FALSE
    /\ newline_required = FALSE
    /\ just_seen_global = FALSE
    /\ ps_pc = "parsing"
    /\ ps_error = NoParserError

\* No file is being parsed.
PsIdle ==
    /\ tokens = <<>>
    /\ token_index = 1
    /\ parser_ast = <<>>
    /\ parser_helper_fns = {}
    /\ parser_on_fns = {}
    /\ called_helper_fn_names = {}
    /\ indentation = 0
    /\ seen_on_fn = FALSE
    /\ seen_newline = FALSE
    /\ newline_allowed = FALSE
    /\ newline_required = FALSE
    /\ just_seen_global = FALSE
    /\ ps_pc = "idle"
    /\ ps_error = NoParserError

parse_locals ==
    <<token_index, seen_on_fn, seen_newline, newline_allowed,
      newline_required, just_seen_global>>

\* self as the loop of parse hands it to the parse_ methods
SelfNow == ParserSelf(called_helper_fn_names, indentation)

\* The loop of parse is at a token.
AtToken == ps_pc = "parsing" /\ token_index <= Len(tokens)

\* The token at i[0] is a word and the next token is of next_type.
AtWordBefore(next_type) ==
    /\ AtToken
    /\ tokens[token_index].type = "WORD_TOKEN"
    /\ token_index + 1 <= Len(tokens)
    /\ tokens[token_index + 1].type = next_type

\* raise ParserError(...) leaves parse, self being left as it is by then.
ParserRaised(error, self, ast_now, helper_fns_now, on_fns_now) ==
    /\ ps_pc' = "error"
    /\ ps_error' = error
    /\ called_helper_fn_names' = self.called_helper_fn_names
    /\ indentation' = self.indentation
    /\ parser_ast' = ast_now
    /\ parser_helper_fns' = helper_fns_now
    /\ parser_on_fns' = on_fns_now
    /\ UNCHANGED <<tokens, parse_locals>>

\* The turn of the loop goes on to the next one, at token i.
ParserContinues(i, self, ast_now, helper_fns_now, on_fns_now) ==
    /\ token_index' = i
    /\ called_helper_fn_names' = self.called_helper_fn_names
    /\ indentation' = self.indentation
    /\ parser_ast' = ast_now
    /\ parser_helper_fns' = helper_fns_now
    /\ parser_on_fns' = on_fns_now
    /\ UNCHANGED <<tokens, ps_pc, ps_error>>

\* The first branch of the loop once parse_global_variable has returned (p).
parse_GlobalVariable_parsed(p) ==
    IF p.error # NoParserError
    THEN ParserRaised(p.error, p.self, parser_ast, parser_helper_fns,
                      parser_on_fns)
    ELSE IF assert_token_type(p.i, "NEWLINE_TOKEN") # NoParserError
    THEN ParserRaised(assert_token_type(p.i, "NEWLINE_TOKEN"), p.self,
                      Append(parser_ast, p.node), parser_helper_fns,
                      parser_on_fns)
    ELSE /\ ParserContinues(p.i + 1, p.self, Append(parser_ast, p.node),
                            parser_helper_fns, parser_on_fns)
         /\ newline_allowed' = TRUE
         /\ newline_required' = TRUE
         /\ just_seen_global' = TRUE
         /\ UNCHANGED <<seen_on_fn, seen_newline>>

parse_GlobalVariable ==
    /\ AtWordBefore("COLON_TOKEN")
    /\ IF seen_on_fn
       THEN ParserRaised("Move the global variable above the on_ functions",
                         SelfNow, parser_ast, parser_helper_fns,
                         parser_on_fns)
       ELSE IF newline_required /\ ~just_seen_global
       THEN ParserRaised("Expected an empty line", SelfNow, parser_ast,
                         parser_helper_fns, parser_on_fns)
       ELSE parse_GlobalVariable_parsed(
                parse_global_variable(token_index, SelfNow))
    /\ UNCHANGED not_ps_vars

\* The second branch of the loop once parse_on_fn has returned (p).
parse_OnFn_parsed(p) ==
    IF p.error # NoParserError
    THEN ParserRaised(p.error, p.self, parser_ast, parser_helper_fns,
                      parser_on_fns)
    ELSE IF p.node.fn_name \in parser_on_fns
    THEN ParserRaised("The function was defined several times", p.self,
                      Append(parser_ast, p.node), parser_helper_fns,
                      parser_on_fns)
    ELSE IF assert_token_type(p.i, "NEWLINE_TOKEN") # NoParserError
    THEN ParserRaised(assert_token_type(p.i, "NEWLINE_TOKEN"), p.self,
                      Append(parser_ast, p.node), parser_helper_fns,
                      parser_on_fns \cup {p.node.fn_name})
    ELSE /\ ParserContinues(p.i + 1, p.self, Append(parser_ast, p.node),
                            parser_helper_fns,
                            parser_on_fns \cup {p.node.fn_name})
         /\ seen_on_fn' = TRUE
         /\ newline_allowed' = TRUE
         /\ newline_required' = TRUE
         /\ just_seen_global' = FALSE
         /\ UNCHANGED seen_newline

parse_OnFn ==
    /\ AtWordBefore("OPEN_PARENTHESIS_TOKEN")
    /\ tokens[token_index].value \in OnFnNames
    /\ IF parser_helper_fns # {}
       THEN ParserRaised("must be defined before all helper_ functions",
                         SelfNow, parser_ast, parser_helper_fns,
                         parser_on_fns)
       ELSE IF newline_required
       THEN ParserRaised("Expected an empty line", SelfNow, parser_ast,
                         parser_helper_fns, parser_on_fns)
       ELSE parse_OnFn_parsed(parse_on_fn(token_index, SelfNow))
    /\ UNCHANGED not_ps_vars

\* The third branch of the loop once parse_helper_fn has returned (p).
parse_HelperFn_parsed(p) ==
    IF p.error # NoParserError
    THEN ParserRaised(p.error, p.self, parser_ast, parser_helper_fns,
                      parser_on_fns)
    ELSE IF p.node.fn_name \in parser_helper_fns
    THEN ParserRaised("The function was defined several times", p.self,
                      Append(parser_ast, p.node), parser_helper_fns,
                      parser_on_fns)
    ELSE IF assert_token_type(p.i, "NEWLINE_TOKEN") # NoParserError
    THEN ParserRaised(assert_token_type(p.i, "NEWLINE_TOKEN"), p.self,
                      Append(parser_ast, p.node),
                      parser_helper_fns \cup {p.node.fn_name}, parser_on_fns)
    ELSE /\ ParserContinues(p.i + 1, p.self, Append(parser_ast, p.node),
                            parser_helper_fns \cup {p.node.fn_name},
                            parser_on_fns)
         /\ newline_allowed' = TRUE
         /\ newline_required' = TRUE
         /\ just_seen_global' = FALSE
         /\ UNCHANGED <<seen_on_fn, seen_newline>>

parse_HelperFn ==
    /\ AtWordBefore("OPEN_PARENTHESIS_TOKEN")
    /\ tokens[token_index].value \in HelperFnNames
    /\ IF newline_required
       THEN ParserRaised("Expected an empty line", SelfNow, parser_ast,
                         parser_helper_fns, parser_on_fns)
       ELSE parse_HelperFn_parsed(parse_helper_fn(token_index, SelfNow))
    /\ UNCHANGED not_ps_vars

\* The branch of the loop for a NEWLINE_TOKEN.
parse_Newline ==
    /\ AtToken
    /\ tokens[token_index].type = "NEWLINE_TOKEN"
    /\ IF ~newline_allowed
       THEN ParserRaised("Unexpected empty line", SelfNow, parser_ast,
                         parser_helper_fns, parser_on_fns)
       ELSE /\ ParserContinues(token_index + 1, SelfNow,
                               Append(parser_ast, EmptyLineStatement),
                               parser_helper_fns, parser_on_fns)
            /\ seen_newline' = TRUE
            /\ newline_allowed' = FALSE
            /\ newline_required' = FALSE
            /\ just_seen_global' = FALSE
            /\ UNCHANGED seen_on_fn
    /\ UNCHANGED not_ps_vars

\* The branch of the loop for a COMMENT_TOKEN.
parse_Comment ==
    /\ AtToken
    /\ tokens[token_index].type = "COMMENT_TOKEN"
    /\ IF assert_token_type(token_index + 1, "NEWLINE_TOKEN") # NoParserError
       THEN ParserRaised(
                assert_token_type(token_index + 1, "NEWLINE_TOKEN"), SelfNow,
                Append(parser_ast,
                       CommentStatement(tokens[token_index].value)),
                parser_helper_fns, parser_on_fns)
       ELSE /\ ParserContinues(
                   token_index + 2, SelfNow,
                   Append(parser_ast,
                          CommentStatement(tokens[token_index].value)),
                   parser_helper_fns, parser_on_fns)
            /\ newline_allowed' = TRUE
            /\ UNCHANGED <<seen_on_fn, seen_newline, newline_required,
                           just_seen_global>>
    /\ UNCHANGED not_ps_vars

\* The last branch of the loop: no other branch takes the token.
parse_UnexpectedToken ==
    /\ AtToken
    /\ ~AtWordBefore("COLON_TOKEN")
    /\ ~(/\ AtWordBefore("OPEN_PARENTHESIS_TOKEN")
         /\ tokens[token_index].value \in OnFnNames \cup HelperFnNames)
    /\ tokens[token_index].type \notin {"NEWLINE_TOKEN", "COMMENT_TOKEN"}
    /\ ParserRaised("Unexpected token", SelfNow, parser_ast,
                    parser_helper_fns, parser_on_fns)
    /\ UNCHANGED not_ps_vars

\* The loop has ended: parse returns self.ast, or raises.
parse_Returns ==
    /\ ps_pc = "parsing"
    /\ token_index > Len(tokens)
    /\ IF seen_newline /\ ~newline_allowed
       THEN ParserRaised("Unexpected empty line", SelfNow, parser_ast,
                         parser_helper_fns, parser_on_fns)
       ELSE /\ ps_pc' = "parsed"
            /\ UNCHANGED <<tokens, parse_locals, parser_ast,
                           parser_helper_fns, parser_on_fns,
                           called_helper_fn_names, indentation, ps_error>>
    /\ UNCHANGED not_ps_vars

----------------------------------------------------------------------------
(* GrugState.compile_grug_file: Tokenizer, Parser, TypePropagator *)

Colon == Token("COLON_TOKEN", ":")

Assignment == Token("ASSIGNMENT_TOKEN", "=")

Number1 == Token("NUMBER_TOKEN", "1")

Indent == Token("INDENTATION_TOKEN", "    ")

\* What the tokenizer makes of  name: type_name
Typed(name, type_name) == <<Word(name), Colon, Space, Word(type_name)>>

\* What the tokenizer makes of the line  name: type_name = expr
GlobalSource(name, type_name, expr) ==
    Typed(name, type_name) \o <<Space, Assignment, Space>> \o expr
    \o <<Newline>>

RECURSIVE BodySource(_)
\* The lines of a body, one level deep, each line being a statement.
BodySource(lines) ==
    IF lines = <<>> THEN <<>>
    ELSE <<Indent>> \o Head(lines) \o <<Newline>> \o BodySource(Tail(lines))

\* What the tokenizer makes of a function: parameters are the tokens between
\* its parentheses, returns the tokens of its return type.
FnSource(fn_name, parameters, returns, lines) ==
    <<Word(fn_name), Open>> \o parameters \o <<Close, Space>> \o returns
    \o <<Token("OPEN_BRACE_TOKEN", "{"), Newline>> \o BodySource(lines)
    \o <<Token("CLOSE_BRACE_TOKEN", "}"), Newline>>

CommentLine == <<Token("COMMENT_TOKEN", "hi"), Newline>>

\* Files about the order of the definitions: globals (one calling a
\* helper), on_ functions, a helper, a comment and a stray number.
OrderItems ==
    {GlobalSource("g", "number", <<Number1>>),
     GlobalSource("x", "number", <<Number1>>),
     GlobalSource("g", "number", CallTokens("helper_f", <<>>)),
     FnSource("on_a", <<>>, <<>>, <<CallTokens("helper_f", <<>>)>>),
     FnSource("on_b", Typed("n", "number"), <<>>,
              <<CallTokens("nothing", <<>>)>>),
     FnSource("helper_f", <<>>, <<>>, <<CallTokens("nothing", <<>>)>>),
     CommentLine,
     <<Number1, Newline>>}

RECURSIVE Joined(_, _, _)
\* The items from the k-th on, an empty line following item k when blank[k].
Joined(items, blank, k) ==
    IF k > Len(items) THEN <<>>
    ELSE items[k]
         \o (IF k < Len(items) /\ blank[k] THEN <<Newline>> ELSE <<>>)
         \o Joined(items, blank, k + 1)

\* The files of at most MaxItems of the given items.
FilesOf(source_items) ==
    {Joined(items, blank, 1) :
        items \in UNION {[1..n -> source_items] : n \in 1..MaxItems},
        blank \in [1..MaxItems -> BOOLEAN]}

\* The line  x: type_name = me  of a body
LocalId(type_name) ==
    Typed("x", type_name) \o <<Space, Assignment, Space, Word("me")>>

\* Files about the signatures of the on_ functions: the two the entity
\* declares, on_a() and on_b(n: number), and on_ functions with a parameter
\* missing, misnamed, of another type or too many, one the entity does not
\* declare, and one whose body does not type-check.
SignatureItems ==
    {FnSource("on_a", <<>>, <<>>, <<LocalId("id")>>),
     FnSource("on_b", Typed("n", "number"), <<>>, <<LocalId("id")>>),
     FnSource("on_b", <<>>, <<>>, <<LocalId("id")>>),
     FnSource("on_b", Typed("x", "number"), <<>>,
              <<CallTokens("nothing", <<>>)>>),
     FnSource("on_b", Typed("n", "bool"), <<>>, <<LocalId("id")>>),
     FnSource("on_a", Typed("n", "number"), <<>>, <<LocalId("id")>>),
     FnSource("on_c", <<>>, <<>>, <<LocalId("id")>>),
     FnSource("on_b", Typed("n", "number"), <<>>, <<LocalId("bool")>>)}

\* Files about the names of the variables: a global g and a global me,
\* functions that declare me or g as a local, assign to me or to g, and
\* helpers with a parameter me or g.
ShadowItems ==
    {GlobalSource("g", "number", <<Number1>>),
     GlobalSource("me", "number", <<Number1>>),
     FnSource("on_a", <<>>, <<>>,
              <<Typed("me", "number") \o <<Space, Assignment, Space, Number1>>>>),
     FnSource("on_a", <<>>, <<>>,
              <<<<Word("me"), Space, Assignment, Space, Number1>>>>),
     FnSource("on_a", <<>>, <<>>,
              <<Typed("g", "number") \o <<Space, Assignment, Space, Number1>>>>),
     FnSource("on_a", <<>>, <<>>,
              <<<<Word("g"), Space, Assignment, Space, Number1>>>>),
     FnSource("on_a", <<>>, <<>>, <<CallTokens("helper_f", <<Number1>>)>>),
     FnSource("helper_f", Typed("me", "number"), <<>>,
              <<CallTokens("nothing", <<>>)>>),
     FnSource("helper_f", Typed("g", "number"), <<>>,
              <<CallTokens("nothing", <<>>)>>)}

\* The line  return value  of a body
Return(value) == <<Token("RETURN_TOKEN", "return"), Space>> \o value

\* Files about the last statement of a helper: a global g, an on_a that
\* assigns helper_f() to it, and helpers helper_f that return a number as
\* their last line, before a comment, after one, return true, return nothing,
\* call a game function instead, or return 1 without a return type.
ReturnItems ==
    LET Number == <<Word("number"), Space>>
        Comment == <<Token("COMMENT_TOKEN", "hi")>>
    IN  {GlobalSource("g", "number", <<Number1>>),
         FnSource("on_a", <<>>, <<>>,
                  <<<<Word("g"), Space, Assignment, Space>>
                    \o CallTokens("helper_f", <<>>)>>),
         FnSource("helper_f", <<>>, Number, <<Return(<<Number1>>)>>),
         FnSource("helper_f", <<>>, Number, <<Return(<<Number1>>), Comment>>),
         FnSource("helper_f", <<>>, Number, <<Comment, Return(<<Number1>>)>>),
         FnSource("helper_f", <<>>, Number,
                  <<Return(<<Token("TRUE_TOKEN", "true")>>)>>),
         FnSource("helper_f", <<>>, Number, <<<<Token("RETURN_TOKEN", "return")>>>>),
         FnSource("helper_f", <<>>, Number, <<CallTokens("nothing", <<>>)>>),
         FnSource("helper_f", <<>>, <<>>, <<Return(<<Number1>>)>>)}

\* The indentation of a line that is depth levels deep.
Indented(depth) ==
    Token("INDENTATION_TOKEN",
          CASE depth = 1 -> "    "
            [] depth = 2 -> "        "
            [] depth = 3 -> "            "
            [] OTHER -> "                ")

\* The line of a statement that is depth levels deep.
Line(depth, statement) == <<Indented(depth)>> \o statement \o <<Newline>>

\* The lines of  keyword condition {  lines  }, depth levels deep.
Block(depth, keyword, condition, lines) ==
    <<Indented(depth), keyword, Space>> \o condition
    \o <<Space, Token("OPEN_BRACE_TOKEN", "{"), Newline>> \o lines
    \o <<Indented(depth), Token("CLOSE_BRACE_TOKEN", "}"), Newline>>

While == Token("WHILE_TOKEN", "while")

If == Token("IF_TOKEN", "if")

True == <<Token("TRUE_TOKEN", "true")>>

Break == <<Token("BREAK_TOKEN", "break")>>

Continue == <<Token("CONTINUE_TOKEN", "continue")>>

\* 1 + 1
Two == <<Number1, Space, Token("PLUS_TOKEN", "+"), Space, Number1>>

\* name < 1 + 1 + 1
LessThanThree(name) ==
    <<Word(name), Space, Token("LESS_TOKEN", "<"), Space>> \o Two
    \o <<Space, Token("PLUS_TOKEN", "+"), Space, Number1>>

\* name == 1 + 1
IsTwo(name) ==
    <<Word(name), Space, Token("EQUALS_TOKEN", "=="), Space>> \o Two

\* name = name + 1
Increment(name) ==
    <<Word(name), Space, Assignment, Space, Word(name), Space,
      Token("PLUS_TOKEN", "+"), Space, Number1>>

\* name: number = 1
NumberOne(name) ==
    Typed(name, "number") \o <<Space, Assignment, Space, Number1>>

\* A function with the given lines, which may be blocks.
FnOfLines(fn_name, lines) ==
    <<Word(fn_name), Open, Close, Space, Token("OPEN_BRACE_TOKEN", "{"),
      Newline>>
    \o lines \o <<Token("CLOSE_BRACE_TOKEN", "}"), Newline>>

\* What a loop does when its counter is 2: nothing in particular, break or
\* continue.
Jumps == {CallTokens("nothing", <<>>), Break, Continue}

\* on_a with a loop in a loop, each counting from 1 to 3: the inner loop
\* hands its counter n to the game, does the jump inner when n is 2 and
\* calls nothing(); the outer loop hands -x to the game after the inner
\* loop, does the jump outer when x is 2 and calls take_id(me); after the
\* loops the game is handed 1.
NestedLoops(inner, outer) ==
    FnOfLines("on_a",
        Line(1, NumberOne("x"))
        \o Block(1, While, LessThanThree("x"),
               Line(2, Increment("x"))
               \o Line(2, NumberOne("n"))
               \o Block(2, While, LessThanThree("n"),
                      Line(3, Increment("n"))
                      \o Line(3, CallTokens("take_number", <<Word("n")>>))
                      \o Block(3, If, IsTwo("n"), Line(4, inner))
                      \o Line(3, CallTokens("nothing", <<>>)))
               \o Line(2, CallTokens("take_number",
                                     <<Token("MINUS_TOKEN", "-"), Word("x")>>))
               \o Block(2, If, IsTwo("x"), Line(3, outer))
               \o Line(2, CallTokens("take_id", <<Word("me")>>)))
        \o Line(1, CallTokens("take_number", <<Number1>>)))

\* Files with a break or a continue at the top of a function, in an if, in a
\* loop, in an if in a loop, after a loop, and in a helper that is called in
\* a loop.
JumpFiles ==
    LET nothing == Line(1, CallTokens("nothing", <<>>))
        looped(lines) == Block(1, While, True, lines)
    IN  UNION {{FnOfLines("on_a", nothing \o Line(1, jump)),
                FnOfLines("on_a", Block(1, If, True, Line(2, jump))),
                FnOfLines("on_a", looped(Line(2, jump))),
                FnOfLines("on_a",
                          looped(Block(2, If, True, Line(3, jump))
                                 \o Line(2, Break))),
                FnOfLines("on_a", looped(Line(2, Break)) \o Line(1, jump)),
                FnOfLines("on_a",
                          looped(Line(2, CallTokens("helper_f", <<>>))
                                 \o Line(2, Break)))
                    \o <<Newline>>
                    \o FnOfLines("helper_f", nothing \o Line(1, jump))} :
               jump \in {Break, Continue}}

\* The files with loops that are compiled.
LoopFiles ==
    {NestedLoops(inner, outer) : inner \in Jumps, outer \in Jumps}
    \cup JumpFiles

\* The files that are compiled are put together from one of these.
SourceItems == {OrderItems, SignatureItems, ShadowItems, ReturnItems}

\* compile_grug_file has read the file and tokenized it, and Parser(tokens)
\* is constructed.
CompileInit ==
    /\ tokens \in UNION {FilesOf(source_items) : source_items \in SourceItems}
                   \cup LoopFiles
    /\ token_index = 1
    /\ parser_ast = <<>>
    /\ parser_helper_fns = {}
    /\ parser_on_fns = {}
    /\ called_helper_fn_names = {}
    /\ indentation = 0
    /\ seen_on_fn = FALSE
    /\ seen_newline = FALSE
    /\ newline_allowed = FALSE
    /\ newline_required = FALSE
    /\ just_seen_global = FALSE
    /\ ps_pc = "parsing"
    /\ ps_error = NoParserError

\* TypePropagator(ast, mod, entity_type, self.mod_api), on what parse
\* returned.
compile_grug_file_TypePropagator ==
    /\ ps_pc = "parsed"
    /\ tp_pc = "idle"
    /\ ast' = parser_ast
    /\ tp_pc' = "fill_global_variables"
    /\ UNCHANGED <<tp_error, global_variables>>
    /\ UNCHANGED not_tp_vars

----------------------------------------------------------------------------
(* Files of one global variable, initialized by an expression *)

\* The text of the operators.
OperatorText(type) ==
    CASE type = "MULTIPLICATION_TOKEN" -> "*"
      [] type = "DIVISION_TOKEN" -> "/"
      [] type = "PLUS_TOKEN" -> "+"
      [] type = "MINUS_TOKEN" -> "-"
      [] type = "LESS_TOKEN" -> "<"
      [] type = "EQUALS_TOKEN" -> "=="
      [] type = "AND_TOKEN" -> "and"
      [] type = "OR_TOKEN" -> "or"
      [] type = "NOT_TOKEN" -> "not"

Operator(type) == Token(type, OperatorText(type))

\* The binary operators of the expressions: one of each level of the parser,
\* and both of two of the levels.
BinaryOperators ==
    {"MULTIPLICATION_TOKEN", "DIVISION_TOKEN", "PLUS_TOKEN", "MINUS_TOKEN",
     "LESS_TOKEN", "EQUALS_TOKEN", "AND_TOKEN", "OR_TOKEN"}

\* The operands are named after their place in the expression.
OperandNames == <<"a", "b", "c", "d", "e">>

\* What a marked operand of the expression is: -a, not a or -get_id().
Forms == {"MINUS_TOKEN", "NOT_TOKEN", "call"}

\* What the tokenizer makes of operand k; an operand that is not marked is
\* its name.
OperandTokens(form, marked, k) ==
    IF ~marked THEN <<Word(OperandNames[k])>>
    ELSE CASE form = "MINUS_TOKEN" ->
                  <<Operator("MINUS_TOKEN"), Word(OperandNames[k])>>
           [] form = "NOT_TOKEN" ->
                  <<Operator("NOT_TOKEN"), Space, Word(OperandNames[k])>>
           [] form = "call" ->
                  <<Operator("MINUS_TOKEN")>> \o CallTokens("get_id", <<>>)

RECURSIVE ExpressionTokens(_, _, _, _)
\* What the tokenizer makes of the expression from operand k on, an operator
\* having one space on each side.
ExpressionTokens(form, marks, operators, k) ==
    OperandTokens(form, marks[k], k)
    \o IF k > Len(operators) THEN <<>>
       ELSE <<Space, Operator(operators[k]), Space>>
            \o ExpressionTokens(form, marks, operators, k + 1)

\* The tokens before the expression of the line  g: number = expression
Declared == Typed("g", "number") \o <<Space, Assignment, Space>>

ExpressionFiles ==
    UNION {{Declared \o ExpressionTokens(form, marks, operators, 1)
            \o <<Newline>> :
               form \in Forms, marks \in [1..(n + 1) -> BOOLEAN],
               operators \in [1..n -> BinaryOperators]} :
           n \in 0..MaxOperators}

\* Parser.__init__ on the tokens of a file of one global, or of a file of
\* Items.
ExpressionInit ==
    /\ tokens \in ExpressionFiles \cup FilesFrom(Items)
    /\ token_index = 1
    /\ parser_ast = <<>>
    /\ parser_helper_fns = {}
    /\ parser_on_fns = {}
    /\ called_helper_fn_names = {}
    /\ indentation = 0
    /\ seen_on_fn = FALSE
    /\ seen_newline = FALSE
    /\ newline_allowed = FALSE
    /\ newline_required = FALSE
    /\ just_seen_global = FALSE
    /\ ps_pc = "parsing"
    /\ ps_error = NoParserError

----------------------------------------------------------------------------
(* The entity of the compiled file: Entity.__init__ and Entity._run_on_fn *)

\* A GrugValue: bool (v is 1 for True, 0 for False), number, string or id.
\* The strings are not told apart.
Value(type, v) == [type |-> type, v |-> v]

\* The name is not a key of the dict; also the None a function returns.
NoValue == Value(None, 0)

NoValues == [name \in VarNames |-> NoValue]

\* The ids that GrugState.next_id hands out.
Ids == 0..(MaxEntities - 1)

\* What a call of the host into the entity reads and writes: the attributes
\* of the Entity, fn_depth of the GrugState, the time that passed since
\* start_time, and what the host has seen: the calls of its game functions
\* and the on_fn_name of each call of its runtime_error_handler, in order.
EntitySelf(me) ==
    [global_variables |-> [NoValues EXCEPT !["me"] = Value("ID", me)],
     local_variables |-> NoValues,
     fn_name |-> "init_globals",
     on_fn_depth |-> 0,
     fn_depth |-> 0,
     elapsed |-> 0,
     calls |-> <<>>,
     handled |-> <<>>]

\* What the host does in its game functions: the id its game functions
\* return, which of them raise GameFnError, and whether fire_b calls on_b of
\* the entity it is called by.
Host(id, raises, fires) == [id |-> id, raises |-> raises, fires |-> fires]

\* What a method comes to: the exception it raised if any, the value it
\* returned (or the value of the Return it raised), and self as it left it.
Ran(raised, value, self) == [raised |-> raised, value |-> value, self |-> self]

\* A call of a game function as the host sees it.
Call(name, args) == [name |-> name, args |-> args]

\* bool(value)
truthy(value) == value.v # 0

\* isinstance(value, float)
is_float(value) == value.type = "NUMBER"

\* left == right of Python: bools, floats and ints compare by their value.
py_equal(left, right) ==
    IF {left.type, right.type} \subseteq {"BOOL", "NUMBER", "ID"}
    THEN left.v = right.v
    ELSE left = right

Bool(b) == Value("BOOL", IF b THEN 1 ELSE 0)

\* runtime_error_handler(reason, type, self.fn_name, path), then raise
handler_called(error, self) ==
    Ran(error, NoValue, [self EXCEPT !.handled = Append(@, self.fn_name)])

\* _check_time_limit_exceeded: the error it raises, if any.
check_time_limit_exceeded(self) ==
    IF self.elapsed > IterationsInBudget THEN "TimeLimitExceeded" ELSE "none"

RECURSIVE run_expr(_, _, _)
RECURSIVE run_statements_from(_, _, _, _)
RECURSIVE Entity_run_on_fn(_, _, _, _)

\* What the game function returns to _run_game_fn: a value of the type the
\* mod API declares for it.
game_fn_result(name, host) ==
    CASE name = "is_true" -> Bool(TRUE)
      [] name = "is_false" -> Bool(FALSE)
      [] name = "get_number" -> Value("NUMBER", 1)
      [] name \in {"get_id", "get_dog", "get_cat"} -> Value("ID", host.id)
      [] OTHER -> NoValue

\* _run_game_fn once game_fn(*args) has ended (g).
run_game_fn_returned(name, host, g) ==
    IF g.raised # "none" THEN g
    ELSE Ran("none",
             IF game_functions[name].return_type_name = None THEN NoValue
             ELSE game_fn_result(name, host),
             g.self)

\* _run_game_fn: the game function is called, and raises GameFnError, or
\* fires on_b of the entity, or returns.
run_game_fn(name, args, self, host) ==
    LET called == [self EXCEPT !.calls = Append(@, Call(name, args))]
    IN  IF name \in host.raises
        THEN handler_called("ReraisedGameFnError", called)
        ELSE IF name = "fire_b" /\ host.fires
        THEN run_game_fn_returned(
                 name, host, Entity_run_on_fn("on_b", args, called, host))
        ELSE run_game_fn_returned(name, host, Ran("none", NoValue, called))

RECURSIVE bound_arguments(_, _, _, _)
\* for arg, argument in zip(args, fn.arguments):
\*     self.local_variables[argument.name] = arg
bound_arguments(i, args, arguments, locals) ==
    IF i > Len(args) \/ i > Len(arguments) THEN locals
    ELSE bound_arguments(i + 1, args, arguments,
                         [locals EXCEPT ![arguments[i].name] = args[i]])

\* A faulty variant of run_helper_fn_returns that leaves the dict of the
\* helper in self.local_variables.
run_helper_fn_returns_unrestored(old_fn_depth, parent_local_variables, b) ==
    IF b.raised \notin {"none", "Return"} THEN b
    ELSE Ran("none", b.value, [b.self EXCEPT !.fn_depth = old_fn_depth])

\* _run_helper_fn once its body has run (b): the value of the Return is the
\* result, and fn_depth and local_variables are put back; any other
\* exception leaves the function as it is.
run_helper_fn_returns(old_fn_depth, parent_local_variables, b) ==
    IF b.raised \notin {"none", "Return"} THEN b
    ELSE Ran("none", b.value,
             [b.self EXCEPT !.fn_depth = old_fn_depth,
                            !.local_variables = parent_local_variables])

\* _run_helper_fn
run_helper_fn(name, args, self, host) ==
    LET helper_fn == ast[CHOOSE i \in helper_fns : ast[i].fn_name = name]
        entered ==
            [self EXCEPT
                !.local_variables =
                    bound_arguments(1, args, helper_fn.arguments, NoValues),
                !.fn_depth = @ + 1]
    IN  IF entered.fn_depth > MAX_DEPTH
        THEN handler_called("StackOverflow", entered)
        ELSE IF check_time_limit_exceeded(entered) # "none"
        THEN handler_called(check_time_limit_exceeded(entered), entered)
        ELSE run_helper_fn_returns(
                 self.fn_depth, self.local_variables,
                 run_statements_from(1, helper_fn.body_statements, entered,
                                     host))

RECURSIVE run_arguments_from(_, _, _, _, _)

\* The arguments of _run_call_expr once argument i has run (r).
run_arguments_next(i, exprs, host, values, r) ==
    IF r.raised # "none" THEN r
    ELSE run_arguments_from(i + 1, exprs, r.self, host,
                            Append(values, r.value))

\* args = [self._run_expr(arg) for arg in call_expr.arguments]
run_arguments_from(i, exprs, self, host, values) ==
    IF i > Len(exprs) THEN Ran("none", values, self)
    ELSE run_arguments_next(i, exprs, host, values,
                            run_expr(exprs[i], self, host))

\* _run_call_expr once the arguments have run (a).
run_call_expr_called(fn_name, a, host) ==
    IF a.raised # "none" THEN a
    ELSE IF fn_name \in HelperFnNames
    THEN run_helper_fn(fn_name, a.value, a.self, host)
    ELSE run_game_fn(fn_name, a.value, a.self, host)

run_call_expr(expr, self, host) ==
    run_call_expr_called(
        expr.x, run_arguments_from(1, expr.exprs, self, host, <<>>), host)

\* _run_unary_expr once the operand has run (r).
run_unary_expr_applied(operator, r) ==
    IF r.raised # "none" THEN r
    ELSE IF operator = "MINUS_TOKEN"
    THEN IF ~is_float(r.value) THEN Ran("AssertionError", NoValue, r.self)
         ELSE Ran("none", Value("NUMBER", 0 - r.value.v), r.self)
    ELSE Ran("none", Bool(~truthy(r.value)), r.self)

\* _run_binary_expr once both operands have run (r is the right one).
run_binary_expr_applied(operator, left, r) ==
    LET right == r.value
        floats == is_float(left) /\ is_float(right)
        number(v) ==
            IF floats THEN Ran("none", Value("NUMBER", v), r.self)
            ELSE Ran("AssertionError", NoValue, r.self)
        bool(b) ==
            IF floats THEN Ran("none", Bool(b), r.self)
            ELSE Ran("AssertionError", NoValue, r.self)
    IN  IF r.raised # "none" THEN r
        ELSE CASE operator = "PLUS_TOKEN" -> number(left.v + right.v)
               [] operator = "MINUS_TOKEN" -> number(left.v - right.v)
               [] operator = "MULTIPLICATION_TOKEN" -> number(left.v * right.v)
               [] operator = "EQUALS_TOKEN" ->
                      Ran("none", Bool(py_equal(left, right)), r.self)
               [] operator = "NOT_EQUALS_TOKEN" ->
                      Ran("none", Bool(~py_equal(left, right)), r.self)
               [] operator = "GREATER_OR_EQUAL_TOKEN" -> bool(left.v >= right.v)
               [] operator = "GREATER_TOKEN" -> bool(left.v > right.v)
               [] operator = "LESS_OR_EQUAL_TOKEN" -> bool(left.v <= right.v)
               [] operator = "LESS_TOKEN" -> bool(left.v < right.v)

\* _run_binary_expr once the left operand has run (l).  The files hold no
\* division.
run_binary_expr_left(expr, host, l) ==
    IF l.raised # "none" THEN l
    ELSE run_binary_expr_applied(expr.x, l.value,
                                 run_expr(expr.exprs[2], l.self, host))

\* A faulty variant of run_logical_expr_left that runs the right operand
\* whatever the left one came to.
run_logical_expr_both(expr, host, l) ==
    IF l.raised # "none" THEN l
    ELSE run_expr(expr.exprs[2], l.self, host)

\* _run_logical_expr once the left operand has run (l): the and, or the or,
\* of Python.
run_logical_expr_left(expr, host, l) ==
    IF l.raised # "none" THEN l
    ELSE IF expr.x = "AND_TOKEN"
    THEN IF truthy(l.value) THEN run_expr(expr.exprs[2], l.self, host) ELSE l
    ELSE IF truthy(l.value) THEN l ELSE run_expr(expr.exprs[2], l.self, host)

\* The CallExpr branch of _run_expr once the call has run (r).
run_expr_called(r) ==
    IF r.raised # "none" THEN r
    ELSE IF r.value = NoValue THEN Ran("AssertionError", NoValue, r.self)
    ELSE r

\* The IdentifierExpr branch of _run_expr.
run_identifier_expr(name, self) ==
    IF self.global_variables[name] # NoValue
    THEN Ran("none", self.global_variables[name], self)
    ELSE IF self.local_variables[name] # NoValue
    THEN Ran("none", self.local_variables[name], self)
    ELSE Ran("KeyError", NoValue, self)

\* _run_expr
run_expr(expr, self, host) ==
    CASE expr.cls = "TrueExpr" -> Ran("none", Bool(TRUE), self)
      [] expr.cls = "StringExpr" -> Ran("none", Value("STRING", 1), self)
      [] expr.cls = "NumberExpr" -> Ran("none", Value("NUMBER", 1), self)
      [] expr.cls = "IdentifierExpr" -> run_identifier_expr(expr.x, self)
      [] expr.cls = "UnaryExpr" ->
            run_unary_expr_applied(expr.x, run_expr(expr.exprs[1], self, host))
      [] expr.cls = "BinaryExpr" ->
            run_binary_expr_left(expr, host, run_expr(expr.exprs[1], self, host))
      [] expr.cls = "LogicalExpr" ->
            run_logical_expr_left(expr, host,
                                  run_expr(expr.exprs[1], self, host))
      [] expr.cls = "CallExpr" -> run_expr_called(run_call_expr(expr, self, host))
      [] expr.cls = "ParenthesizedExpr" -> run_expr(expr.exprs[1], self, host)

\* _run_variable_statement once the expression has run (r).
run_variable_statement_assigned(statement, r) ==
    IF r.raised # "none" THEN r
    ELSE IF r.self.global_variables[statement.name] # NoValue
    THEN Ran("none", NoValue,
             [r.self EXCEPT !.global_variables[statement.name] = r.value])
    ELSE Ran("none", NoValue,
             [r.self EXCEPT !.local_variables[statement.name] = r.value])

\* _run_call_statement once the call has run (r).
run_call_statement_called(r) ==
    IF r.raised # "none" THEN r ELSE Ran("none", NoValue, r.self)

\* _run_return_statement once the value has run (r).
run_return_statement_raised(r) ==
    IF r.raised # "none" THEN r ELSE Ran("Return", r.value, r.self)

\* _run_if_statement once the condition has run (c).
run_if_statement_chosen(statement, host, c) ==
    IF c.raised # "none" THEN c
    ELSE IF truthy(c.value)
    THEN run_statements_from(1, statement.body, c.self, host)
    ELSE run_statements_from(1, statement.else_body, c.self, host)

RECURSIVE run_while_statement(_, _, _)

\* A faulty variant of run_while_statement_iterated in which Break is not
\* caught by the loop it is raised in.
run_while_statement_uncaught(statement, host, b) ==
    LET timed == [b.self EXCEPT !.elapsed = @ + 1]
    IN  IF b.raised \notin {"none", "Continue"} THEN b
        ELSE IF check_time_limit_exceeded(timed) # "none"
        THEN handler_called(check_time_limit_exceeded(timed), timed)
        ELSE run_while_statement(statement, timed, host)

\* _run_while_statement once the body has run (b): Continue is caught
\* inside the loop and Break outside of it, the time limit is checked after
\* the iteration, which took one unit of time, and the loop goes on.
run_while_statement_iterated(statement, host, b) ==
    LET timed == [b.self EXCEPT !.elapsed = @ + 1]
    IN  IF b.raised = "Break" THEN Ran("none", NoValue, b.self)
        ELSE IF b.raised \notin {"none", "Continue"} THEN b
        ELSE IF check_time_limit_exceeded(timed) # "none"
        THEN handler_called(check_time_limit_exceeded(timed), timed)
        ELSE run_while_statement(statement, timed, host)

\* _run_while_statement once the condition has run (c).
run_while_statement_tested(statement, host, c) ==
    IF c.raised = "Break" THEN Ran("none", NoValue, c.self)
    ELSE IF c.raised # "none" THEN c
    ELSE IF ~truthy(c.value) THEN Ran("none", NoValue, c.self)
    ELSE run_while_statement_iterated(
             statement, host,
             run_statements_from(1, statement.body, c.self, host))

run_while_statement(statement, self, host) ==
    run_while_statement_tested(statement, host,
                               run_expr(statement.expr, self, host))

\* _run_statement
run_statement(statement, self, host) ==
    CASE statement.cls = "VariableStatement" ->
            run_variable_statement_assigned(
                statement, run_expr(statement.expr, self, host))
      [] statement.cls = "CallStatement" ->
            run_call_statement_called(run_call_expr(statement.expr, self, host))
      [] statement.cls = "IfStatement" ->
            run_if_statement_chosen(statement, host,
                                    run_expr(statement.expr, self, host))
      [] statement.cls = "ReturnStatement" ->
            IF statement.expr = NoExpr THEN Ran("Return", NoValue, self)
            ELSE run_return_statement_raised(
                     run_expr(statement.expr, self, host))
      [] statement.cls = "WhileStatement" ->
            run_while_statement(statement, self, host)
      [] statement.cls = "BreakStatement" -> Ran("Break", NoValue, self)
      [] statement.cls = "ContinueStatement" -> Ran("Continue", NoValue, self)
      [] statement.cls \in {"EmptyLineStatement", "CommentStatement"} ->
            Ran("none", NoValue, self)

\* The loop of _run_statements once statement i has run (r).
run_statements_next(i, statements, host, r) ==
    IF r.raised # "none" THEN r
    ELSE run_statements_from(i + 1, statements, r.self, host)

\* _run_statements
run_statements_from(i, statements, self, host) ==
    IF i > Len(statements) THEN Ran("none", NoValue, self)
    ELSE run_statements_next(i, statements, host,
                             run_statement(statements[i], self, host))

\* A faulty variant of run_on_fn_finally that leaves the dict of the hook
\* in self.local_variables.
run_on_fn_finally_unrestored(self, b) ==
    Ran(IF b.raised \in {"none", "Return"} THEN "none"
        ELSE IF b.raised \in RuntimeErrors /\ b.self.fn_depth <= 1
        THEN "none"
        ELSE b.raised,
        NoValue,
        [b.self EXCEPT !.fn_depth = self.fn_depth,
                       !.on_fn_depth = self.on_fn_depth])

\* _run_on_fn once the body has run (b), self being what the call started
\* from: Return is passed, a runtime error is raised again if fn_depth > 1,
\* and finally puts fn_depth, on_fn_depth and local_variables back.
run_on_fn_finally(self, b) ==
    Ran(IF b.raised \in {"none", "Return"} THEN "none"
        ELSE IF b.raised \in RuntimeErrors /\ b.self.fn_depth <= 1
        THEN "none"
        ELSE b.raised,
        NoValue,
        [b.self EXCEPT !.fn_depth = self.fn_depth,
                       !.on_fn_depth = self.on_fn_depth,
                       !.local_variables = self.local_variables])

\* Entity._run_on_fn
Entity_run_on_fn(on_fn_name, args, self, host) ==
    LET defined == {i \in on_fns : ast[i].fn_name = on_fn_name}
        on_fn == ast[CHOOSE i \in defined : TRUE]
        entered ==
            [self EXCEPT
                !.local_variables =
                    bound_arguments(1, args, on_fn.arguments, NoValues),
                !.fn_name = on_fn_name,
                !.fn_depth = @ + 1,
                !.on_fn_depth = @ + 1,
                !.elapsed = IF self.on_fn_depth + 1 = 1 THEN 0 ELSE @]
    IN  IF defined = {} THEN Ran("RuntimeError", NoValue, self)
        ELSE run_on_fn_finally(
                 self,
                 run_statements_from(1, on_fn.body_statements, entered, host))

RECURSIVE init_globals_from(_, _, _)

\* The loop of _init_globals once the initializer of the global ast[i] has
\* run (r).
init_globals_assigned(i, host, r) ==
    IF r.raised # "none" THEN r
    ELSE init_globals_from(
             i + 1, [r.self EXCEPT !.global_variables[ast[i].name] = r.value],
             host)

\* for g in global_variables:
\*     self.global_variables[g.name] = self._run_expr(g.expr)
init_globals_from(i, self, host) ==
    IF i > Len(ast) THEN Ran("none", NoValue, self)
    ELSE IF ast[i].cls # "VariableStatement"
    THEN init_globals_from(i + 1, self, host)
    ELSE init_globals_assigned(i, host, run_expr(ast[i].expr, self, host))

\* _init_globals once the loop has ended (r): a runtime error is raised
\* again if fn_depth > 1, and finally puts fn_depth back.
init_globals_finally(old_fn_depth, r) ==
    Ran(IF r.raised \in RuntimeErrors /\ r.self.fn_depth <= 1 THEN "none"
        ELSE r.raised,
        NoValue, [r.self EXCEPT !.fn_depth = old_fn_depth])

\* Entity.__init__ and _init_globals, for the entity with the id me.
Entity_init_globals(me, fn_depth_now, host) ==
    init_globals_finally(
        fn_depth_now,
        init_globals_from(
            1, [EntitySelf(me) EXCEPT !.fn_depth = fn_depth_now + 1], host))

\* What the host does when it is called: it returns one of the ids, one of
\* its game functions may raise GameFnError, and fire_b may call on_b.
Hosts ==
    {Host(id, raises, fires) :
        id \in Ids, raises \in {{}, {"nothing"}, {"get_id"}},
        fires \in BOOLEAN}

\* No entity is created.
EnIdle ==
    /\ en_pc = "none"
    /\ en_me_id = 0
    /\ en_global_variables = NoValues
    /\ en_fn_name = "none"
    /\ en_on_fn_name = "none"
    /\ en_calls = <<>>
    /\ en_handled = <<>>
    /\ en_raised = "none"

\* What the host has seen of the call that came to r.
HostSaw(r) ==
    /\ en_calls' = r.self.calls
    /\ en_handled' = r.self.handled
    /\ en_raised' = r.raised

\* GrugFile.create_entity, called by the game from its top level:
\* Entity.__init__ takes the next id and runs _init_globals; the game holds
\* the entity unless __init__ raised.
create_entity ==
    /\ tp_pc = "filled"
    /\ en_pc = "none"
    /\ \E id \in Ids, host \in Hosts :
           LET r == Entity_init_globals(id, 0, host)
           IN  /\ en_me_id' = id
               /\ en_global_variables' = r.self.global_variables
               /\ en_fn_name' = r.self.fn_name
               /\ en_pc' = IF r.raised = "none" THEN "created" ELSE "raised"
               /\ en_on_fn_name' = "none"
               /\ HostSaw(r)
    /\ UNCHANGED not_en_vars

\* The arguments the game passes: one value of the declared type for each.
passed(arguments) ==
    [k \in 1..Len(arguments) |->
        Value(parse_type(arguments[k].type_name), 1)]

\* Entity._run_on_fn, called by the game from its top level on an on_
\* function of the file.
run_on_fn ==
    /\ en_pc = "created"
    /\ \E i \in on_fns, host \in Hosts :
           LET self == [EntitySelf(en_me_id) EXCEPT
                           !.global_variables = en_global_variables,
                           !.fn_name = en_fn_name]
               r == Entity_run_on_fn(ast[i].fn_name, passed(ast[i].arguments),
                                     self, host)
           IN  /\ en_global_variables' = r.self.global_variables
               /\ en_fn_name' = r.self.fn_name
               /\ en_on_fn_name' = ast[i].fn_name
               /\ HostSaw(r)
    /\ UNCHANGED <<en_pc, en_me_id>>
    /\ UNCHANGED not_en_vars

----------------------------------------------------------------------------
(* The ASTs that are filled and run *)

OnB(body_statements) ==
    Fn("OnFn", "on_b", <<Argument("n", "number")>>, None, body_statements)

BoolCalls == {CallExpr("is_true", <<>>), CallExpr("is_false", <<>>)}

Logicals ==
    {LogicalExpr(l, op, r) :
        l \in BoolCalls, r \in BoolCalls, op \in {"AND_TOKEN", "OR_TOKEN"}}

\* Logical expressions over game functions, alone, as the left operand of
\* another, and as the arguments of a call.
LogicalPrograms ==
    {<<OnA(<<VariableStatement("x", "bool", e)>>)>> :
        e \in Logicals
              \cup {LogicalExpr(l, op, r) :
                       l \in Logicals, r \in BoolCalls,
                       op \in {"AND_TOKEN", "OR_TOKEN"}}}
    \cup {<<OnA(<<CallStatement(CallExpr("take_bools", <<a, b>>))>>)>> :
             a \in BoolCalls \cup Logicals, b \in BoolCalls \cup Logicals}

Twice(name) ==
    BinaryExpr(IdentifierExpr(name), "PLUS_TOKEN", IdentifierExpr(name))

TakeNumber(name) ==
    CallStatement(CallExpr("take_number", <<IdentifierExpr(name)>>))

\* What a function with the parameter n does to locals of its own: it
\* declares x, or assigns to n, and may end with a return.
CalleeBodies ==
    LET bodies == {<<VariableStatement("x", "number", Twice("n")),
                     TakeNumber("x")>>,
                   <<TakeNumber("n"), VariableStatement("n", None, Twice("n"))>>}
    IN  bodies \cup {Append(b, ReturnStatement(NoExpr)) : b \in bodies}

\* on_a sets a local to 1, calls a helper or, through fire_b, on_b with that
\* local, and hands the local to the game.
FramePrograms ==
    {<<OnA(<<VariableStatement(v, "number", NumberExpr),
             CallStatement(CallExpr("helper_f", <<IdentifierExpr(v)>>)),
             TakeNumber(v)>>),
       Fn("HelperFn", "helper_f", <<Argument("n", "number")>>, None, b)>> :
        v \in {"x", "n"}, b \in CalleeBodies}
    \cup {<<OnA(<<VariableStatement(v, "number", NumberExpr),
                  VariableStatement("d", "number",
                                    CallExpr("helper_f", <<IdentifierExpr(v)>>)),
                  TakeNumber(v)>>),
            Fn("HelperFn", "helper_f", <<Argument("n", "number")>>, "number",
               <<VariableStatement("x", "number", Twice("n")),
                 ReturnStatement(IdentifierExpr("x"))>>)>> :
             v \in {"x", "n"}}
    \cup {<<OnA(<<VariableStatement(v, "number", NumberExpr),
                  CallStatement(CallExpr("fire_b", <<IdentifierExpr(v)>>)),
                  TakeNumber(v)>>),
            OnB(b)>> :
             v \in {"x", "n"}, b \in CalleeBodies}

\* Operands of the types number and id and of no type.
TypedOperands ==
    {NumberExpr, CallExpr("get_number", <<>>), CallExpr("get_id", <<>>),
     CallExpr("nothing", <<>>)}

\* on_a with an arithmetic expression, a comparison or a negation of such
\* operands in a variable statement or in a condition.
TypedPrograms ==
    LET exprs == {BinaryExpr(l, op, r) :
                     l \in TypedOperands, r \in TypedOperands,
                     op \in {"EQUALS_TOKEN", "LESS_TOKEN", "PLUS_TOKEN"}}
                 \cup {UnaryExpr("MINUS_TOKEN", a) : a \in TypedOperands}
    IN  {<<OnA(<<VariableStatement("x", t, e)>>)>> :
            t \in {"bool", "number"}, e \in exprs}
        \cup {<<OnA(<<IfStatement(e, <<Nothing>>, <<>>)>>)>> :
                 e \in exprs \cup {CallExpr("nothing", <<>>),
                                   ParenthesizedExpr(CallExpr("nothing", <<>>))}}

\* Files of two globals, the first initialized by a game function, and an
\* on_a that hands one of them to the game.
GlobalPrograms ==
    {<<VariableStatement("g", "id", CallExpr("get_id", <<>>)),
       VariableStatement("i", "number", NumberExpr),
       OnA(<<c>>)>> :
        c \in {CallStatement(CallExpr("take_id", <<IdentifierExpr("g")>>)),
               TakeNumber("i")}}
    \cup {<<VariableStatement("i", "number", CallExpr("get_number", <<>>)),
            VariableStatement("d", "number", Twice("i")),
            OnA(<<TakeNumber("d")>>)>>}

RunPrograms ==
    LogicalPrograms \cup FramePrograms \cup TypedPrograms \cup GlobalPrograms

\* The constructor of the type propagator has run on the AST of the file.
RunInit ==
    /\ ast \in RunPrograms
    /\ tp_pc = "fill_global_variables"
    /\ tp_error = NoError
    /\ global_variables = NoVariables

----------------------------------------------------------------------------
(* TypePropagator.validate_resource_string *)

\* A string is the sequence of its characters.
Chars == {"a", ".", "/", "\\"}

Strings(n) == UNION {[1..k -> Chars] : k \in 0..n}

\* string[k], k counted from 0.
at(string, k) == string[k + 1]

\* sub occurs in string at k.
occurs(string, sub, k) ==
    /\ k + Len(sub) <= Len(string)
    /\ \A j \in 1..Len(sub) : string[k + j] = sub[j]

startswith(string, sub) == occurs(string, sub, 0)

endswith(string, sub) ==
    /\ Len(sub) <= Len(string)
    /\ occurs(string, sub, Len(string) - Len(sub))

\* string.find(sub): the first place where sub occurs, -1 when there is none.
find(string, sub) ==
    IF \E k \in 0..Len(string) : occurs(string, sub, k)
    THEN CHOOSE k \in 0..Len(string) :
             /\ occurs(string, sub, k)
             /\ \A j \in 0..(k - 1) : ~occurs(string, sub, j)
    ELSE -1

\* The test validate_resource_string makes of the first occurrence of dots,
\* "." or "..": it raises when the occurrence is a whole path segment.
first_is_segment(string, dots) ==
    LET index == find(string, dots)
    IN  /\ index # -1
        /\ IF index = 0
           THEN \/ Len(string) = Len(dots)
                \/ at(string, Len(dots)) = "/"
           ELSE /\ at(string, index - 1) = "/"
                /\ \/ index + Len(dots) = Len(string)
                   \/ at(string, index + Len(dots)) = "/"

validate_resource_string(string, extension) ==
    IF string = <<>>
    THEN TypePropagationError("Resources can't be empty strings", "", "")
    ELSE IF startswith(string, <<"/">>)
    THEN TypePropagationError("Remove the leading slash", "", "")
    ELSE IF endswith(string, <<"/">>)
    THEN TypePropagationError("Remove the trailing slash", "", "")
    ELSE IF find(string, <<"\\">>) # -1
    THEN TypePropagationError("Replace the '\\' with '/'", "", "")
    ELSE IF find(string, <<"/", "/">>) # -1
    THEN TypePropagationError("Replace the '//' with '/'", "", "")
    ELSE IF first_is_segment(string, <<".">>)
    THEN TypePropagationError("Remove the '.'", "", "")
    ELSE IF first_is_segment(string, <<".", ".">>)
    THEN TypePropagationError("Remove the '..'", "", "")
    ELSE IF endswith(string, <<".">>)
    THEN TypePropagationError("cannot end with .", "", "")
    ELSE IF extension # <<>> /\ ~endswith(string, extension)
    THEN TypePropagationError("was supposed to have the extension", "", "")
    ELSE NoError

\* No resource string is validated.
RsIdle ==
    /\ resource = <<>>
    /\ resource_extension = <<>>
    /\ rs_pc = "idle"
    /\ rs_error = NoError

\* A resource string of a call, and the resource_extension of the parameter.
RsInit ==
    /\ resource \in Strings(MaxResourceLen)
    /\ resource_extension \in {<<>>, <<".", "a">>}
    /\ rs_pc = "validating"
    /\ rs_error = NoError

validate_ResourceString ==
    /\ rs_pc = "validating"
    /\ rs_error' = validate_resource_string(resource, resource_extension)
    /\ rs_pc' = "validated"
    /\ UNCHANGED <<resource, resource_extension>>
    /\ UNCHANGED not_rs_vars

----------------------------------------------------------------------------
(* GrugState._add_game_fns_from_packages *)

\* The prefixes of the packages, "" being that of no_prefix().
Prefixes == {"", "a"}

\* The __name__ of the game functions.
FnNames == {"f", "a_f"}

\* The names a game function is registered under.
prefixed(prefix, name) == IF prefix # "" THEN prefix \o "_" \o name ELSE name

RegisteredNames ==
    FnNames \cup {prefixed(prefix, name) : prefix \in Prefixes, name \in FnNames}

\* The game function k of package p.
GameFn(p, k) == [pkg |-> p, k |-> k]

NoGameFn == GameFn(0, 0)

GrugPackage(prefix, fn_names) == [prefix |-> prefix, game_fns |-> fn_names]

GrugPackages ==
    {GrugPackage(prefix, fn_names) :
        prefix \in Prefixes,
        fn_names \in UNION {[1..n -> FnNames] : n \in 1..MaxGameFns}}

\* No GrugState is constructed.
GsIdle ==
    /\ gs_packages = <<>>
    /\ gs_game_fns = [name \in RegisteredNames |-> NoGameFn]
    /\ gs_pc = "idle"

\* GrugState.__init__ up to the call of _add_game_fns_from_packages.
GsInit ==
    /\ gs_packages \in UNION {[1..n -> GrugPackages] : n \in 1..MaxPackages}
    /\ gs_game_fns = [name \in RegisteredNames |-> NoGameFn]
    /\ gs_pc = "constructing"

RECURSIVE add_game_fns_from(_, _, _, _)
\* The loops of _add_game_fns_from_packages from game function k of package
\* p on: what game_fns becomes, and whether exit() was called.
add_game_fns_from(pkgs, p, k, fns) ==
    IF p > Len(pkgs) THEN [exit |-> FALSE, game_fns |-> fns]
    ELSE IF k > Len(pkgs[p].game_fns) THEN add_game_fns_from(pkgs, p + 1, 1, fns)
    ELSE IF fns[pkgs[p].game_fns[k]] # NoGameFn
    THEN [exit |-> TRUE, game_fns |-> fns]
    ELSE add_game_fns_from(
             pkgs, p, k + 1,
             [fns EXCEPT ![prefixed(pkgs[p].prefix, pkgs[p].game_fns[k])] =
                 GameFn(p, k)])

add_game_fns_from_packages ==
    /\ gs_pc = "constructing"
    /\ LET added == add_game_fns_from(gs_packages, 1, 1, gs_game_fns)
       IN  /\ gs_game_fns' = added.game_fns
           /\ gs_pc' = IF added.exit THEN "exit" ELSE "constructed"
    /\ UNCHANGED gs_packages
    /\ UNCHANGED not_gs_vars

----------------------------------------------------------------------------
(* Serializer: the AST as JSON *)

\* expr.__class__.__name__.replace("Expr", "").upper() + "_EXPR"
expr_type(cls) ==
    CASE cls = "TrueExpr" -> "TRUE_EXPR"
      [] cls = "NumberExpr" -> "NUMBER_EXPR"
      [] cls = "StringExpr" -> "STRING_EXPR"
      [] cls = "IdentifierExpr" -> "IDENTIFIER_EXPR"
      [] cls = "UnaryExpr" -> "UNARY_EXPR"
      [] cls = "BinaryExpr" -> "BINARY_EXPR"
      [] cls = "LogicalExpr" -> "LOGICAL_EXPR"
      [] cls = "CallExpr" -> "CALL_EXPR"
      [] cls = "ParenthesizedExpr" -> "PARENTHESIZED_EXPR"

\* stmt.__class__.__name__.replace("Statement", "").upper() + "_STATEMENT"
statement_type(cls) ==
    CASE cls = "VariableStatement" -> "VARIABLE_STATEMENT"
      [] cls = "CallStatement" -> "CALL_STATEMENT"
      [] cls = "IfStatement" -> "IF_STATEMENT"
      [] cls = "ReturnStatement" -> "RETURN_STATEMENT"
      [] cls = "CommentStatement" -> "COMMENT_STATEMENT"
      [] cls = "EmptyLineStatement" -> "EMPTYLINE_STATEMENT"

\* hasattr(node, name): the fields of the dataclasses of the AST.
hasattr(cls, name) ==
    CASE cls = "IfStatement" -> name \in {"condition", "if_body", "else_body"}
      [] cls = "HelperFn" ->
             name \in {"fn_name", "arguments", "return_type",
                       "return_type_name", "body_statements"}

\* The dict of an expression: its type, the keys it holds besides, the
\* string under str, operator or name, and the dicts under expr, under
\* left_expr and right_expr, or under arguments.
JsonExpr(type, keys, x, exprs) ==
    [type |-> type, keys |-> keys, x |-> x, exprs |-> exprs]

\* The dict of a statement or of a global statement: its type, the keys it
\* holds besides, the string under name or comment, the one under
\* variable_type or return_type, the dicts under assignment, condition,
\* expr or the arguments of a call, the dicts under statements or
\* if_statements, those under else_statements, and the arguments of a
\* function.
JsonStatement(type, keys, name, type_name, exprs, statements,
              else_statements, arguments) ==
    [type |-> type, keys |-> keys, name |-> name, type_name |-> type_name,
     exprs |-> exprs, statements |-> statements,
     else_statements |-> else_statements, arguments |-> arguments]

\* What a _serialize_ method comes to: whether it raised, and what it
\* returned.
Serialized(raised, json) == [raised |-> raised, json |-> json]

SerializerRaised == Serialized(TRUE, <<>>)

\* The keys that are set when the list is not empty.
KeysIf(list, keys) == IF list # <<>> THEN keys ELSE {}

RECURSIVE serialize_expr(_)

RECURSIVE serialize_exprs_from(_, _, _)

\* [Serializer._serialize_expr(arg) for arg in arguments] once the k-th is
\* serialized (s).
serialize_exprs_next(exprs, k, jsons, s) ==
    IF s.raised THEN s
    ELSE serialize_exprs_from(exprs, k + 1, Append(jsons, s.json))

serialize_exprs_from(exprs, k, jsons) ==
    IF k > Len(exprs) THEN Serialized(FALSE, jsons)
    ELSE serialize_exprs_next(exprs, k, jsons, serialize_expr(exprs[k]))

\* _serialize_expr once the expressions of the node are serialized (s).
serialize_expr_over(type, keys, x, s) ==
    IF s.raised THEN s ELSE Serialized(FALSE, JsonExpr(type, keys, x, s.json))

\* No node is an I32Expr or an F32Expr, which the parser does not make; the
\* last branch asserts that the node is a ParenthesizedExpr.
serialize_expr(expr) ==
    LET type == expr_type(expr.cls)
        exprs == serialize_exprs_from(expr.exprs, 1, <<>>)
    IN  CASE expr.cls \in {"TrueExpr", "FalseExpr"} ->
                 Serialized(FALSE, JsonExpr(type, {}, "", <<>>))
          [] expr.cls \in {"StringExpr", "IdentifierExpr"} ->
                 Serialized(FALSE, JsonExpr(type, {"str"}, expr.x, <<>>))
          [] expr.cls = "UnaryExpr" ->
                 serialize_expr_over(type, {"operator", "expr"}, expr.x,
                                     exprs)
          [] expr.cls \in {"BinaryExpr", "LogicalExpr"} ->
                 serialize_expr_over(type,
                                     {"left_expr", "operator", "right_expr"},
                                     expr.x, exprs)
          [] expr.cls = "CallExpr" ->
                 serialize_expr_over(type,
                                     {"name"}
                                         \cup KeysIf(expr.exprs,
                                                     {"arguments"}),
                                     expr.x, exprs)
          [] expr.cls = "ParenthesizedExpr" ->
                 serialize_expr_over(type, {"expr"}, "", exprs)
          [] OTHER -> SerializerRaised

RECURSIVE serialize_statement(_)

RECURSIVE serialize_statements_from(_, _, _)

\* [Serializer._serialize_statement(s) for s in ...] once the k-th is
\* serialized (s).
serialize_statements_next(statements, k, jsons, s) ==
    IF s.raised THEN s
    ELSE serialize_statements_from(statements, k + 1, Append(jsons, s.json))

serialize_statements_from(statements, k, jsons) ==
    IF k > Len(statements) THEN Serialized(FALSE, jsons)
    ELSE serialize_statements_next(statements, k, jsons,
                                   serialize_statement(statements[k]))

\* The VariableStatement branch once the assigned expression is serialized
\* (e).
serialize_statement_variable(type, stmt, e) ==
    IF e.raised THEN e
    ELSE Serialized(FALSE,
                    JsonStatement(type,
                                  {"name", "assignment"}
                                      \cup (IF stmt.type_name # None
                                            THEN {"variable_type"} ELSE {}),
                                  stmt.name, stmt.type_name, <<e.json>>,
                                  <<>>, <<>>, <<>>))

\* The CallStatement branch once the arguments are serialized (a).
serialize_statement_call(type, call_expr, a) ==
    IF a.raised THEN a
    ELSE Serialized(FALSE,
                    JsonStatement(type,
                                  {"name"}
                                      \cup KeysIf(call_expr.exprs,
                                                  {"arguments"}),
                                  call_expr.x, None, a.json, <<>>, <<>>,
                                  <<>>))

\* The IfStatement branch once the statements of else_body are serialized
\* (e), which they are when the node has the attribute else_body_statements.
serialize_statement_else(type, keys, c, b, e) ==
    IF e.raised THEN e
    ELSE Serialized(FALSE,
                    JsonStatement(type, keys, "", None, <<c.json>>, b.json,
                                  e.json, <<>>))

\* The IfStatement branch once the statements of if_body are serialized (b).
serialize_statement_if_body(type, stmt, c, b) ==
    IF b.raised THEN b
    ELSE IF hasattr(stmt.cls, "else_body_statements") /\ stmt.else_body # <<>>
    THEN serialize_statement_else(
             type,
             {"condition", "else_statements"}
                 \cup KeysIf(stmt.body, {"if_statements"}),
             c, b, serialize_statements_from(stmt.else_body, 1, <<>>))
    ELSE Serialized(FALSE,
                    JsonStatement(type,
                                  {"condition"}
                                      \cup KeysIf(stmt.body,
                                                  {"if_statements"}),
                                  "", None, <<c.json>>, b.json, <<>>, <<>>))

\* The IfStatement branch once the condition is serialized (c).
serialize_statement_if(type, stmt, c) ==
    IF c.raised THEN c
    ELSE serialize_statement_if_body(
             type, stmt, c, serialize_statements_from(stmt.body, 1, <<>>))

\* The ReturnStatement branch once the value is serialized (e).
serialize_statement_return(type, e) ==
    IF e.raised THEN e
    ELSE Serialized(FALSE,
                    JsonStatement(type, {"expr"}, "", None, <<e.json>>, <<>>,
                                  <<>>, <<>>))

\* The files hold no while, break or continue.
serialize_statement(stmt) ==
    LET type == statement_type(stmt.cls)
    IN  CASE stmt.cls = "VariableStatement" ->
                 serialize_statement_variable(type, stmt,
                                              serialize_expr(stmt.expr))
          [] stmt.cls = "CallStatement" ->
                 serialize_statement_call(
                     type, stmt.expr,
                     serialize_exprs_from(stmt.expr.exprs, 1, <<>>))
          [] stmt.cls = "IfStatement" ->
                 serialize_statement_if(type, stmt, serialize_expr(stmt.expr))
          [] stmt.cls = "ReturnStatement" ->
                 IF stmt.expr # NoExpr
                 THEN serialize_statement_return(type,
                                                 serialize_expr(stmt.expr))
                 ELSE Serialized(FALSE,
                                 JsonStatement(type, {}, "", None, <<>>,
                                               <<>>, <<>>, <<>>))
          [] stmt.cls = "CommentStatement" ->
                 Serialized(FALSE,
                            JsonStatement(type, {"comment"}, stmt.name, None,
                                          <<>>, <<>>, <<>>, <<>>))
          [] stmt.cls = "EmptyLineStatement" ->
                 Serialized(FALSE,
                            JsonStatement(type, {}, "", None, <<>>, <<>>,
                                          <<>>, <<>>))

\* The OnFn and HelperFn branches of _serialize_global_statement once the
\* statements of the body are serialized (b).
serialize_global_statement_fn(type, keys, fn, b) ==
    IF b.raised THEN b
    ELSE Serialized(FALSE,
                    JsonStatement(type, keys, fn.fn_name,
                                  fn.return_type_name, <<>>, b.json, <<>>,
                                  fn.arguments))

\* The VariableStatement branch of _serialize_global_statement once the
\* assigned expression is serialized (e).
serialize_global_statement_variable(global_stmt, e) ==
    IF e.raised THEN e
    ELSE Serialized(FALSE,
                    JsonStatement("GLOBAL_VARIABLE",
                                  {"name", "variable_type", "assignment"},
                                  global_stmt.name, global_stmt.type_name,
                                  <<e.json>>, <<>>, <<>>, <<>>))

serialize_global_statement(global_stmt) ==
    CASE global_stmt.cls = "OnFn" ->
             serialize_global_statement_fn(
                 "GLOBAL_ON_FN",
                 {"name", "statements"}
                     \cup KeysIf(global_stmt.arguments, {"arguments"}),
                 global_stmt,
                 serialize_statements_from(global_stmt.body_statements, 1,
                                           <<>>))
      [] global_stmt.cls = "HelperFn" ->
             serialize_global_statement_fn(
                 "GLOBAL_HELPER_FN",
                 {"name", "statements"}
                     \cup KeysIf(global_stmt.arguments, {"arguments"})
                     \cup (IF /\ hasattr(global_stmt.cls, "return_type")
                              /\ global_stmt.return_type_name # None
                           THEN {"return_type"} ELSE {}),
                 global_stmt,
                 serialize_statements_from(global_stmt.body_statements, 1,
                                           <<>>))
      [] global_stmt.cls = "VariableStatement" ->
             serialize_global_statement_variable(
                 global_stmt, serialize_expr(global_stmt.expr))
      [] global_stmt.cls = "CommentStatement" ->
             Serialized(FALSE,
                        JsonStatement("GLOBAL_COMMENT", {"comment"},
                                      global_stmt.name, None, <<>>, <<>>,
                                      <<>>, <<>>))
      [] global_stmt.cls = "EmptyLineStatement" ->
             Serialized(FALSE,
                        JsonStatement("GLOBAL_EMPTY_LINE", {}, "", None,
                                      <<>>, <<>>, <<>>, <<>>))

RECURSIVE ast_to_json_text_from(_, _, _)

\* The list of ast_to_json_text once the k-th node is serialized (s).
ast_to_json_text_next(nodes, k, jsons, s) ==
    IF s.raised THEN s
    ELSE ast_to_json_text_from(nodes, k + 1, Append(jsons, s.json))

ast_to_json_text_from(nodes, k, jsons) ==
    IF k > Len(nodes) THEN Serialized(FALSE, jsons)
    ELSE ast_to_json_text_next(nodes, k, jsons,
                               serialize_global_statement(nodes[k]))

\* json.dumps writes the list of dicts of strings and lists, and json.loads
\* reads the same list back.
ast_to_json_text(nodes) == ast_to_json_text_from(nodes, 1, <<>>)

----------------------------------------------------------------------------
(* Serializer: the JSON as a grug file, and the tokens of that file *)

\* The token the tokenizer makes of a keyword, an operator or a punctuation
\* mark.
Lexeme(text) ==
    Token(CASE text = "true" -> "TRUE_TOKEN"
            [] text = "if" -> "IF_TOKEN"
            [] text = "else" -> "ELSE_TOKEN"
            [] text = "return" -> "RETURN_TOKEN"
            [] text = "not" -> "NOT_TOKEN"
            [] text = "and" -> "AND_TOKEN"
            [] text = "or" -> "OR_TOKEN"
            [] text = "+" -> "PLUS_TOKEN"
            [] text = "-" -> "MINUS_TOKEN"
            [] text = "*" -> "MULTIPLICATION_TOKEN"
            [] text = "/" -> "DIVISION_TOKEN"
            [] text = "==" -> "EQUALS_TOKEN"
            [] text = "<" -> "LESS_TOKEN"
            [] text = "=" -> "ASSIGNMENT_TOKEN"
            [] text = ":" -> "COLON_TOKEN"
            [] text = "," -> "COMMA_TOKEN"
            [] text = "(" -> "OPEN_PARENTHESIS_TOKEN"
            [] text = ")" -> "CLOSE_PARENTHESIS_TOKEN"
            [] text = "{" -> "OPEN_BRACE_TOKEN"
            [] text = "}" -> "CLOSE_BRACE_TOKEN"
            [] text = "\n" -> "NEWLINE_TOKEN",
          text)

RECURSIVE spaces(_)
\* The text of n spaces.
spaces(n) == IF n = 0 THEN "" ELSE " " \o spaces(n - 1)

\* A text is the sequence of its lexemes, each space being one of them.
\* write("    " * indentation[0])
apply_indentation(level) == [k \in 1..(SPACES_PER_INDENT * level) |-> Space]

\* get_binary_operator; the parser makes no BinaryExpr of another token.
get_binary_operator(token) ==
    CASE token = "PLUS_TOKEN" -> "+"
      [] token = "MINUS_TOKEN" -> "-"
      [] token = "MULTIPLICATION_TOKEN" -> "*"
      [] token = "DIVISION_TOKEN" -> "/"
      [] token = "EQUALS_TOKEN" -> "=="
      [] token = "LESS_TOKEN" -> "<"

get_logical_operator(token) ==
    CASE token = "AND_TOKEN" -> "and"
      [] token = "OR_TOKEN" -> "or"

RECURSIVE apply_expr(_)

RECURSIVE apply_exprs_from(_, _)
\* The loop over the arguments of a call, from the k-th on.
apply_exprs_from(arguments, k) ==
    IF k > Len(arguments) THEN <<>>
    ELSE (IF k > 1 THEN <<Lexeme(","), Space>> ELSE <<>>)
         \o apply_expr(arguments[k])
         \o apply_exprs_from(arguments, k + 1)

\* name(arguments)
apply_call(json) ==
    <<Word(json.x), Lexeme("(")>>
    \o (IF "arguments" \in json.keys THEN apply_exprs_from(json.exprs, 1)
        ELSE <<>>)
    \o <<Lexeme(")")>>

\* An expression of a type that is none of these writes nothing.
apply_expr(expr) ==
    CASE expr.type = "TRUE_EXPR" -> <<Lexeme("true")>>
      [] expr.type = "STRING_EXPR" -> <<Token("STRING_TOKEN", expr.x)>>
      [] expr.type = "IDENTIFIER_EXPR" -> <<Word(expr.x)>>
      [] expr.type = "UNARY_EXPR" ->
             (CASE expr.x = "MINUS_TOKEN" -> <<Lexeme("-")>>
                [] expr.x = "NOT_TOKEN" -> <<Lexeme("not"), Space>>
                [] OTHER -> <<>>)
             \o apply_expr(expr.exprs[1])
      [] expr.type = "BINARY_EXPR" ->
             apply_expr(expr.exprs[1])
             \o <<Space, Lexeme(get_binary_operator(expr.x)), Space>>
             \o apply_expr(expr.exprs[2])
      [] expr.type = "LOGICAL_EXPR" ->
             apply_expr(expr.exprs[1])
             \o <<Space, Lexeme(get_logical_operator(expr.x)), Space>>
             \o apply_expr(expr.exprs[2])
      [] expr.type = "CALL_EXPR" -> apply_call(expr)
      [] expr.type = "PARENTHESIZED_EXPR" ->
             <<Lexeme("(")>> \o apply_expr(expr.exprs[1]) \o <<Lexeme(")")>>
      [] OTHER -> <<>>

\* write(f'# {statement["comment"]}\n'), of which the tokenizer makes a
\* comment token of the text after "# ".
apply_comment(statement) ==
    <<Token("COMMENT_TOKEN", statement.name), Lexeme("\n")>>

RECURSIVE apply_statements(_, _)

RECURSIVE apply_if_statement(_, _)

\* try_get_else_if
is_else_if(else_statements) ==
    /\ Len(else_statements) > 0
    /\ else_statements[1].type = "IF_STATEMENT"

\* level is indentation[0].
apply_if_statement(statement, level) ==
    <<Lexeme("if"), Space>> \o apply_expr(statement.exprs[1])
    \o <<Space, Lexeme("{"), Lexeme("\n")>>
    \o (IF "if_statements" \in statement.keys
        THEN apply_statements(statement.statements, level) ELSE <<>>)
    \o (IF "else_statements" \in statement.keys
        THEN apply_indentation(level) \o <<Lexeme("}"), Space, Lexeme("else"),
                                           Space>>
             \o (IF is_else_if(statement.else_statements)
                 THEN apply_if_statement(statement.else_statements[1], level)
                 ELSE <<Lexeme("{"), Lexeme("\n")>>
                      \o apply_statements(statement.else_statements, level)
                      \o apply_indentation(level)
                      \o <<Lexeme("}"), Lexeme("\n")>>)
        ELSE apply_indentation(level) \o <<Lexeme("}"), Lexeme("\n")>>)

\* A statement of a type that is none of these writes nothing.
apply_statement(statement, level) ==
    CASE statement.type = "VARIABLE_STATEMENT" ->
             <<Word(statement.name)>>
             \o (IF "variable_type" \in statement.keys
                 THEN <<Lexeme(":"), Space, Word(statement.type_name)>>
                 ELSE <<>>)
             \o (IF "assignment" \in statement.keys
                 THEN <<Space, Lexeme("="), Space>>
                      \o apply_expr(statement.exprs[1])
                 ELSE <<>>)
             \o <<Lexeme("\n")>>
      [] statement.type = "CALL_STATEMENT" ->
             <<Word(statement.name), Lexeme("(")>>
             \o (IF "arguments" \in statement.keys
                 THEN apply_exprs_from(statement.exprs, 1) ELSE <<>>)
             \o <<Lexeme(")"), Lexeme("\n")>>
      [] statement.type = "IF_STATEMENT" ->
             apply_if_statement(statement, level)
      [] statement.type = "RETURN_STATEMENT" ->
             <<Lexeme("return")>>
             \o (IF "expr" \in statement.keys
                 THEN <<Space>> \o apply_expr(statement.exprs[1]) ELSE <<>>)
             \o <<Lexeme("\n")>>
      [] statement.type = "COMMENT_STATEMENT" -> apply_comment(statement)
      [] OTHER -> <<>>

RECURSIVE apply_statements_from(_, _, _)
\* The loop of apply_statements from the k-th statement on, level being
\* indentation[0] inside the loop.
apply_statements_from(statements, k, level) ==
    IF k > Len(statements) THEN <<>>
    ELSE (IF statements[k].type = "EMPTY_LINE_STATEMENT"
          THEN <<Lexeme("\n")>>
          ELSE apply_indentation(level)
               \o apply_statement(statements[k], level))
         \o apply_statements_from(statements, k + 1, level)

apply_statements(statements, level) ==
    apply_statements_from(statements, 1, level + 1)

RECURSIVE apply_arguments_from(_, _)
apply_arguments_from(arguments, k) ==
    IF k > Len(arguments) THEN <<>>
    ELSE (IF k > 1 THEN <<Lexeme(","), Space>> ELSE <<>>)
         \o <<Word(arguments[k].name), Lexeme(":"), Space,
              Word(arguments[k].type_name)>>
         \o apply_arguments_from(arguments, k + 1)

\* apply_on_fn, and apply_helper_fn, which writes the return type too.
apply_fn(statement) ==
    <<Word(statement.name), Lexeme("(")>>
    \o (IF "arguments" \in statement.keys
        THEN apply_arguments_from(statement.arguments, 1) ELSE <<>>)
    \o <<Lexeme(")")>>
    \o (IF /\ statement.type = "GLOBAL_HELPER_FN"
           /\ "return_type" \in statement.keys
        THEN <<Space, Word(statement.type_name)>> ELSE <<>>)
    \o <<Space, Lexeme("{"), Lexeme("\n")>>
    \o (IF "statements" \in statement.keys
        THEN apply_statements(statement.statements, 0) ELSE <<>>)
    \o <<Lexeme("}"), Lexeme("\n")>>

apply_global_variable(statement) ==
    <<Word(statement.name), Lexeme(":"), Space, Word(statement.type_name),
      Space, Lexeme("="), Space>>
    \o apply_expr(statement.exprs[1])
    \o <<Lexeme("\n")>>

RECURSIVE apply_root_from(_, _)
\* The loop of apply_root from the k-th statement on.
apply_root_from(root, k) ==
    IF k > Len(root) THEN <<>>
    ELSE (CASE root[k].type = "GLOBAL_VARIABLE" ->
                   apply_global_variable(root[k])
            [] root[k].type \in {"GLOBAL_ON_FN", "GLOBAL_HELPER_FN"} ->
                   apply_fn(root[k])
            [] root[k].type = "GLOBAL_EMPTY_LINE" -> <<Lexeme("\n")>>
            [] root[k].type = "GLOBAL_COMMENT" -> apply_comment(root[k])
            [] OTHER -> <<>>)
         \o apply_root_from(root, k + 1)

ast_to_grug(json) == apply_root_from(json, 1)

\* What Tokenizer.tokenize comes to: the TokenizerError it raised if any,
\* and the tokens.
Tokenized(error, toks) == [error |-> error, tokens |-> toks]

RECURSIVE run_of_spaces(_, _)
\* The number of spaces of the text from the k-th lexeme on.
run_of_spaces(text, k) ==
    IF k > Len(text) \/ text[k] # Space THEN 0
    ELSE 1 + run_of_spaces(text, k + 1)

\* The lexemes at which the loop of tokenize makes a token: all but the
\* spaces that follow a space.
token_starts(text) ==
    {k \in 1..Len(text) : text[k] # Space \/ k = 1 \/ text[k - 1] # Space}

\* The token of a turn of the loop, at lexeme k: one space is a space
\* token, more are an indentation token; the other lexemes are the tokens
\* they were written as.
token_at(text, k) ==
    LET n == run_of_spaces(text, k)
    IN  IF n = 0 THEN text[k]
        ELSE IF n = 1 THEN Space
        ELSE Token("INDENTATION_TOKEN", spaces(n))

\* tokenize raises when the spaces of an indentation are not a multiple of
\* SPACES_PER_INDENT.
tokenize(text) ==
    LET starts == token_starts(text)
        nth(i) == CHOOSE k \in starts :
                      Cardinality({j \in starts : j < k}) = i - 1
    IN  IF \E k \in starts :
               /\ run_of_spaces(text, k) > 1
               /\ run_of_spaces(text, k) % SPACES_PER_INDENT # 0
        THEN Tokenized(TRUE, <<>>)
        ELSE Tokenized(FALSE,
                       [i \in 1..Cardinality(starts) |->
                           token_at(text, nth(i))])

----------------------------------------------------------------------------
(* GrugState.dump_file_to_json and GrugState.generate_file_from_json *)

\* What the tokenizer makes of the if statement of a body one level deep,
\* whose own body calls nothing(); rest are the tokens after its closing
\* brace.
IfSource(rest) ==
    <<Lexeme("if"), Space, Lexeme("true"), Space, Lexeme("{"), Newline,
      Token("INDENTATION_TOKEN", "        ")>>
    \o CallTokens("nothing", <<>>)
    \o <<Newline, Indent, Lexeme("}")>> \o rest

\* else and the block that calls nothing()
ElseSource ==
    <<Space, Lexeme("else"), Space, Lexeme("{"), Newline,
      Token("INDENTATION_TOKEN", "        ")>>
    \o CallTokens("nothing", <<>>)
    \o <<Newline, Indent, Lexeme("}")>>

\* The files that are dumped: globals initialized by a number and by
\* not (true and true), a comment, a stray number, an on_ function of a
\* call with arguments, a declaration and an assignment of helper_f(true),
\* one with an empty line between two calls, a helper with a parameter, a
\* return type, a comment and a return, and on_ functions of an if, an if
\* with an else and an if with an else if.
SerializeItems ==
    {GlobalSource("g", "number", <<Number1>>),
     GlobalSource("g", "bool",
                  <<Lexeme("not"), Space, Lexeme("("), Lexeme("true"), Space,
                    Lexeme("and"), Space, Lexeme("true"), Lexeme(")")>>),
     CommentLine,
     <<Number1, Newline>>,
     FnSource("on_a", <<>>, <<>>,
              <<CallTokens("nothing",
                           <<Token("STRING_TOKEN", "s"), Lexeme(","), Space,
                             Lexeme("-"), Word("a")>>),
                Typed("x", "bool")
                    \o <<Space, Assignment, Space, Word("a"), Space,
                         Lexeme("=="), Space, Word("b")>>,
                <<Word("x"), Space, Assignment, Space>>
                    \o CallTokens("helper_f", <<Lexeme("true")>>)>>),
     <<Word("on_b"), Open, Close, Space, Lexeme("{"), Newline, Indent>>
         \o CallTokens("nothing", <<>>)
         \o <<Newline, Newline, Indent>>
         \o CallTokens("nothing", <<>>)
         \o <<Newline, Lexeme("}"), Newline>>,
     FnSource("helper_f", Typed("n", "number"), <<Word("bool"), Space>>,
              <<<<Token("COMMENT_TOKEN", "hi")>>,
                Return(<<Lexeme("true")>>)>>),
     FnSource("on_c", <<>>, <<>>, <<IfSource(<<>>)>>),
     FnSource("on_c", <<>>, <<>>, <<IfSource(ElseSource)>>),
     FnSource("on_c", <<>>, <<>>,
              <<IfSource(<<Space, Lexeme("else"), Space>>
                         \o IfSource(<<>>))>>)}

\* The files of at most MaxDefinitions of these, with or without an empty
\* line after each but the last.
SerializeFiles ==
    {Joined(items, blank, 1) :
        items \in UNION {[1..n -> SerializeItems] : n \in 1..MaxDefinitions},
        blank \in [1..MaxDefinitions -> BOOLEAN]}

\* dump_file_to_json has read the file and tokenized it, and Parser(tokens)
\* is constructed.
SerializeInit ==
    /\ tokens \in SerializeFiles
    /\ token_index = 1
    /\ parser_ast = <<>>
    /\ parser_helper_fns = {}
    /\ parser_on_fns = {}
    /\ called_helper_fn_names = {}
    /\ indentation = 0
    /\ seen_on_fn = FALSE
    /\ seen_newline = FALSE
    /\ newline_allowed = FALSE
    /\ newline_required = FALSE
    /\ just_seen_global = FALSE
    /\ ps_pc = "parsing"
    /\ ps_error = NoParserError

\* No file is dumped.
SzIdle ==
    /\ sz_pc = "idle"
    /\ sz_asts = <<>>
    /\ sz_jsons = <<>>
    /\ sz_text = <<>>

\* dump_file_to_json is called on a file.
SzInit ==
    /\ sz_pc = "dumping"
    /\ sz_asts = <<>>
    /\ sz_jsons = <<>>
    /\ sz_text = <<>>

\* dump_file_to_json once parse has returned the AST: it writes the JSON,
\* unless the serializer raises.
dump_file_to_json ==
    /\ sz_pc = "dumping"
    /\ ps_pc = "parsed"
    /\ LET s == ast_to_json_text(parser_ast)
       IN  IF s.raised
           THEN /\ sz_pc' = "raised"
                /\ UNCHANGED <<sz_asts, sz_jsons>>
           ELSE /\ sz_pc' = IF sz_jsons = <<>> THEN "dumped" ELSE "done"
                /\ sz_asts' = Append(sz_asts, parser_ast)
                /\ sz_jsons' = Append(sz_jsons, s.json)
    /\ UNCHANGED sz_text
    /\ UNCHANGED not_sz_vars

\* generate_file_from_json on the JSON that was written.
generate_file_from_json ==
    /\ sz_pc = "dumped"
    /\ sz_text' = ast_to_grug(sz_jsons[1])
    /\ sz_pc' = "generated"
    /\ UNCHANGED <<sz_asts, sz_jsons>>
    /\ UNCHANGED not_sz_vars

\* dump_file_to_json on the generated file, up to Parser(tokens).
dump_file_to_json_Parser ==
    /\ sz_pc = "generated"
    /\ LET t == tokenize(sz_text)
       IN  IF t.error
           THEN /\ sz_pc' = "rejected"
                /\ UNCHANGED ps_vars
           ELSE /\ sz_pc' = "dumping"
                /\ tokens' = t.tokens
                /\ token_index' = 1
                /\ parser_ast' = <<>>
                /\ parser_helper_fns' = {}
                /\ parser_on_fns' = {}
                /\ called_helper_fn_names' = {}
                /\ indentation' = 0
                /\ seen_on_fn' = FALSE
                /\ seen_newline' = FALSE
                /\ newline_allowed' = FALSE
                /\ newline_required' = FALSE
                /\ just_seen_global' = FALSE
                /\ ps_pc' = "parsing"
                /\ ps_error' = NoParserError
    /\ UNCHANGED <<sz_asts, sz_jsons, sz_text>>
    /\ UNCHANGED <<rt_vars, tp_vars, en_vars, rs_vars, gs_vars, ld_vars>>

----------------------------------------------------------------------------
(* loader.load_component *)

\* What grug.toml says of the component: there is no file, the file is not
\* TOML, it names no class for the component, it names a class that can be
\* imported, or one whose import raises.
Configs == {"no file", "unparsable", "not set", "class", "unimportable"}

\* An entry point: its name, and whether its load() returns a class or
\* raises.
EntryPoint(name, loads) == [name |-> name, loads |-> loads]

EntryPoints ==
    {EntryPoint(name, loads) : name \in {"default", "other"},
                               loads \in BOOLEAN}

\* The entry points of the group, and whether entry_points() raises.
Group(raises, eps) == [raises |-> raises, eps |-> eps]

Groups ==
    {Group(TRUE, <<>>)}
        \cup {Group(FALSE, eps) :
                  eps \in UNION {[1..n -> EntryPoints] :
                                    n \in 0..MaxEntryPoints}}

\* The class of the entry point k of the group.
EntryPointClass(k) == [from |-> "entry point", k |-> k]

ConfigClass == [from |-> "grug.toml", k |-> 0]

DefaultClass == [from |-> "default_cls", k |-> 0]

\* No class was returned: the function returned None, or raised.
NoClass == [from |-> "none", k |-> 0]

Loaded(raised, cls) == [raised |-> raised, cls |-> cls]

load_from_config(config) ==
    CASE config \in {"no file", "unparsable", "not set"} ->
             Loaded(FALSE, NoClass)
      [] config = "class" -> Loaded(FALSE, ConfigClass)
      [] config = "unimportable" -> Loaded(TRUE, NoClass)

\* ep.load()
load(eps, k) ==
    IF eps[k].loads THEN Loaded(FALSE, EntryPointClass(k))
    ELSE Loaded(TRUE, NoClass)

\* A faulty variant of load_from_entrypoints, without its first loop.
load_from_entrypoints_first(group) ==
    LET eps == group.eps
    IN  IF group.raises THEN Loaded(TRUE, NoClass)
        ELSE IF eps # <<>> THEN load(eps, 1)
        ELSE Loaded(TRUE, NoClass)

load_from_entrypoints(group) ==
    LET eps == group.eps
    IN  IF group.raises THEN Loaded(TRUE, NoClass)
        ELSE IF \E k \in DOMAIN eps : eps[k].name # "default"
        THEN load(eps, CHOOSE k \in DOMAIN eps :
                           /\ eps[k].name # "default"
                           /\ \A j \in 1..(k - 1) : eps[j].name = "default")
        ELSE IF eps # <<>> THEN load(eps, 1)
        ELSE Loaded(TRUE, NoClass)

\* load_component once _load_from_entrypoints has returned or raised (e).
load_component_entrypoints(e) ==
    IF ~e.raised /\ e.cls # NoClass THEN e ELSE Loaded(FALSE, DefaultClass)

\* load_component once _load_from_config has returned or raised (c).
load_component_config(c, group) ==
    IF c.raised THEN c
    ELSE IF c.cls # NoClass THEN c
    ELSE load_component_entrypoints(load_from_entrypoints(group))

\* No component is loaded.
LdIdle ==
    /\ ld_config = "no file"
    /\ ld_entry_points = Group(FALSE, <<>>)
    /\ ld_pc = "idle"
    /\ ld_cls = NoClass

\* A component is about to be loaded.
LdInit ==
    /\ ld_config \in Configs
    /\ ld_entry_points \in Groups
    /\ ld_pc = "loading"
    /\ ld_cls = NoClass

load_component ==
    /\ ld_pc = "loading"
    /\ LET l == load_component_config(load_from_config(ld_config),
                                      ld_entry_points)
       IN  /\ ld_pc' = IF l.raised THEN "raised" ELSE "loaded"
           /\ ld_cls' = l.cls
    /\ UNCHANGED <<ld_config, ld_entry_points>>
    /\ UNCHANGED not_ld_vars

----------------------------------------------------------------------------
(* The specifications *)


Init ==
    RtInit /\ TpIdle /\ PsIdle /\ EnIdle /\ RsIdle /\ GsIdle /\ LdIdle
        /\ SzIdle

\* The steps of the interpreter when the file of the entities defines the
\* given on_ functions.
Interpreter(on_fns_of_file) ==
    \/ Entity_init
    \/ InitGlobals_Return
    \/ InitGlobals_Except
    \/ \E e \in Entities, on_fn_name \in on_fns_of_file :
           RunOnFn_Enter(e, on_fn_name)
    \/ RunOnFn_Return
    \/ RunOnFn_Except
    \/ While_IterationEnds
    \/ RunHelperFn_Enter
    \/ RunHelperFn_Return
    \/ RunHelperFn_Unwind
    \/ RunGameFn_Return
    \/ GameFn_Raises
    \/ RunGameFn_Except
    \/ Tick

\* The file of the entities defines on_a.
Next == Interpreter({"on_a"}) \/ RunGameFn_Enter

Spec == Init /\ [][Next]_vars

\* The file of the entities defines on_a and on_b.
NextHooks == Interpreter({"on_a", "on_b"}) \/ RunGameFn_Enter

SpecHooks == Init /\ [][NextHooks]_vars

\* The file of the entities defines on_a.
NextDeep == Interpreter({"on_a"}) \/ RunGameFn_EnterDeep

SpecDeep == Init /\ [][NextDeep]_vars

InitFill ==
    RtInit /\ TpInit /\ PsIdle /\ EnIdle /\ RsIdle /\ GsIdle /\ LdIdle
        /\ SzIdle

NextFill ==
    \/ fill_global_variables
    \/ fill_on_fns
    \/ fill_helper_fns

SpecFill == InitFill /\ [][NextFill]_vars

InitParse ==
    RtInit /\ TpIdle /\ PsInit /\ EnIdle /\ RsIdle /\ GsIdle /\ LdIdle
        /\ SzIdle

NextParse ==
    \/ parse_GlobalVariable
    \/ parse_OnFn
    \/ parse_HelperFn
    \/ parse_Newline
    \/ parse_Comment
    \/ parse_UnexpectedToken
    \/ parse_Returns

SpecParse == InitParse /\ [][NextParse]_vars

InitExpression ==
    RtInit /\ TpIdle /\ ExpressionInit /\ EnIdle /\ RsIdle /\ GsIdle
        /\ LdIdle /\ SzIdle

SpecExpression == InitExpression /\ [][NextParse]_vars

InitCompile ==
    RtInit /\ TpIdle /\ CompileInit /\ EnIdle /\ RsIdle /\ GsIdle /\ LdIdle
        /\ SzIdle

NextCompile ==
    \/ NextParse
    \/ compile_grug_file_TypePropagator
    \/ NextFill

SpecCompile == InitCompile /\ [][NextCompile]_vars

InitResource ==
    RtInit /\ TpIdle /\ PsIdle /\ EnIdle /\ RsInit /\ GsIdle /\ LdIdle
        /\ SzIdle

NextResource == validate_ResourceString

SpecResource == InitResource /\ [][NextResource]_vars

InitPackages ==
    RtInit /\ TpIdle /\ PsIdle /\ EnIdle /\ RsIdle /\ GsInit /\ LdIdle
        /\ SzIdle

NextPackages == add_game_fns_from_packages

SpecPackages == InitPackages /\ [][NextPackages]_vars

InitLoader ==
    RtInit /\ TpIdle /\ PsIdle /\ EnIdle /\ RsIdle /\ GsIdle /\ LdInit
        /\ SzIdle

NextLoader == load_component

SpecLoader == InitLoader /\ [][NextLoader]_vars

InitSerialize ==
    RtInit /\ TpIdle /\ SerializeInit /\ EnIdle /\ RsIdle /\ GsIdle /\ LdIdle
        /\ SzInit

NextSerialize ==
    \/ NextParse
    \/ dump_file_to_json
    \/ generate_file_from_json
    \/ dump_file_to_json_Parser

SpecSerialize == InitSerialize /\ [][NextSerialize]_vars

NextEntity ==
    \/ NextCompile
    \/ create_entity
    \/ run_on_fn

SpecEntity == InitCompile /\ [][NextEntity]_vars

InitRun ==
    RtInit /\ RunInit /\ PsIdle /\ EnIdle /\ RsIdle /\ GsIdle /\ LdIdle
        /\ SzIdle

\* The file is filled, an entity of it is created, and the game calls its
\* on_ functions.
NextRun ==
    \/ NextFill
    \/ create_entity
    \/ run_on_fn

SpecRun == InitRun /\ [][NextRun]_vars

----------------------------------------------------------------------------
(* Properties of the runtime *)

\* What the active calls on the stack account for.
ActiveCalls == Cardinality({i \in 1..Len(stack) : stack[i].kind # "game"})

ActiveHooks(e) ==
    Cardinality({i \in 1..Len(stack) :
                    stack[i].kind = "on" /\ stack[i].ent = e})

CurrentFrame(e) ==
    LET own == {i \in 1..Len(stack) :
                   stack[i].kind \in {"on", "helper"} /\ stack[i].ent = e}
    IN  IF own = {} THEN 0 ELSE CHOOSE i \in own : \A j \in own : j <= i

\* Control is in the script or in the host, and not in the middle of an
\* unwinding inside the interpreter.
Settled ==
    \/ exc = "none"
    \/ (IF stack = <<>> THEN TRUE ELSE Top.kind = "game")

\* C1: a runtime error raised inside a hook that the host started while no
\* other hook was running never comes out of that hook's _run_on_fn as an
\* exception: the host sees every such call return normally.
C1_OutermostHookReturnsNormally ==
    ~(host_call = "on" /\ host_saw \in RuntimeErrors)

\* C2: the host's runtime_error_handler is called exactly once for every
\* runtime error cause, whatever helper frames and nested hooks the error
\* unwinds through.  A GameFnError is reported when _run_game_fn catches it,
\* so the count is compared once the raw GameFnError is no longer in flight.
C2_HandlerCalledOncePerCause ==
    (exc # "GameFnError") => (handler_calls = causes)

\* An error raised inside a hook that a game function fired has come out of
\* that hook, back into the game function, and the handler has been called.
C2_Witness_ErrorLeftNestedHook ==
    /\ exc \in RuntimeErrors
    /\ stack # <<>>
    /\ Top.kind = "game"
    /\ host_call = "on"
    /\ handler_calls = 1

\* C3: once a hook invocation has ended, normally or aborted by a runtime
\* error at any nesting depth, fn_depth, the entity's on_fn_depth and the
\* entity's current local-variable frame are what they were before it, that
\* is, what the calls that are still active account for; with no call active
\* they are what a first hook starts from.
C3_HookRestoresRuntimeState ==
    Settled =>
        /\ fn_depth = ActiveCalls
        /\ \A e \in Entities :
              /\ on_fn_depth[e] = ActiveHooks(e)
              /\ local_variables[e] = CurrentFrame(e)

\* A hook the host started has been aborted by a runtime error and has ended.
C3_Witness_AbortedHookEnded ==
    /\ stack = <<>>
    /\ host_call = "on"
    /\ host_saw # "running"
    /\ causes = 1

\* C4: fn_depth never exceeds MAX_DEPTH + 1.
C4_DepthAtMost101 == fn_depth <= MAX_DEPTH + 1

\* C5: recursion through hooks re-entered via game functions is cut off by
\* the depth limit or by the time limit: no hook body starts to run once the
\* depth limit is passed and the entity's time limit has expired.
C5_ReenteredHookIsCutOff ==
    ~(/\ exc = "none"
      /\ stack # <<>>
      /\ Top.kind = "on"
      /\ fn_depth > MAX_DEPTH
      /\ Expired(Top.ent))

\* C6: entities have distinct ids, strictly increasing in the order of
\* creation and all below next_id, and next_id never decreases, also when
\* an entity's _init_globals is aborted by a runtime error.
C6_IdsIncrease ==
    /\ [](\A i, j \in 1..n_entities :
             /\ me_id[i] < next_id
             /\ (i < j => me_id[i] < me_id[j]))
    /\ [][next_id' >= next_id]_vars

\* A second entity was created inside a game function and its _init_globals
\* was aborted by a runtime error that propagated.
C6_Witness_AbortedInit ==
    /\ n_entities = 2
    /\ status[2] = "lost"
    /\ status[1] = "held"
    /\ stack = <<>>

\* The step enters a hook of entity e.
HookEntered(e) == on_fn_depth'[e] = on_fn_depth[e] + 1

\* C21: start_time is captured by the entry of a hook exactly when no other
\* hook of the entity is active: entering a hook while one is active leaves
\* the elapsed time of the entity alone, and the elapsed time of an entity
\* goes back only in a step that enters its outermost hook, so the budget
\* of the outer hook keeps counting during and after a nested hook.
C21_StartTimeOfOutermostHook ==
    [][\A e \in Entities :
          /\ HookEntered(e) =>
                 elapsed'[e] = (IF on_fn_depth[e] = 0 THEN 0 ELSE elapsed[e])
          /\ elapsed'[e] < elapsed[e] =>
                 HookEntered(e) /\ on_fn_depth[e] = 0]_vars

\* A hook runs inside another hook of the same entity, and the time that
\* passed since the outer hook was entered is still counted.
C21_Witness_NestedHookKeepsTime ==
    \E e \in Entities :
        /\ on_fn_depth[e] = 2
        /\ elapsed[e] > 0
        /\ exc = "none"
        /\ Top.kind = "on"
        /\ Top.ent = e

\* The step enters _run_game_fn.
GameFnEntered ==
    /\ Len(stack') = Len(stack) + 1
    /\ stack'[Len(stack')].kind = "game"

\* C22: the elapsed time is compared with the budget on entry to every
\* game function call: a game function that is called once the budget is
\* exceeded is not run, and TimeLimitExceeded is raised.
C22_TimeCheckedAtGameFnEntry ==
    [][stack # <<>> /\ Expired(Top.ent) => ~GameFnEntered]_vars

\* The handler is called in this step.
HandlerCalled == handler_calls' = handler_calls + 1

\* The name of the innermost hook of entity e that is active, "none" when
\* none is.
ExecutingHook(e) ==
    LET own == {i \in 1..Len(stack) :
                   stack[i].kind = "on" /\ stack[i].ent = e}
    IN  IF own = {} THEN "none"
        ELSE stack[CHOOSE i \in own : \A j \in own : j <= i].on_fn_name

\* C30: whenever the handler is called for an error raised while a hook of
\* an entity is active, the on_fn_name it receives is the name of the
\* innermost active hook of that entity.
C30_HandlerGetsExecutingHook ==
    [][HandlerCalled /\ ExecutingHook(Top.ent) # "none" =>
           entity_fn_name[Top.ent] = ExecutingHook(Top.ent)]_vars

----------------------------------------------------------------------------
(* Properties of the type propagator *)

RECURSIVE ExprNodes(_)
\* The expression nodes of the tree of expr.
ExprNodes(expr) ==
    {expr} \cup UNION {ExprNodes(expr.exprs[i]) : i \in 1..Len(expr.exprs)}

RECURSIVE StatementsIn(_)
\* The statements of a body, those of the nested bodies included.
StatementsIn(statements) ==
    UNION {{statements[i]} \cup StatementsIn(statements[i].body)
                           \cup StatementsIn(statements[i].else_body) :
              i \in 1..Len(statements)}

\* The statements of the file: the global variables and the function bodies.
AllStatements ==
    {ast[i] : i \in {j \in 1..Len(ast) : ast[j].cls = "VariableStatement"}}
    \cup UNION {StatementsIn(ast[i].body_statements) :
                   i \in on_fns \cup helper_fns}

\* The expression nodes of the file.
AllExprNodes ==
    UNION {ExprNodes(s.expr) : s \in {t \in AllStatements : t.expr # NoExpr}}

\* The expression nodes of the file whose value is used: all of them but
\* the CallExpr that is the expression of a CallStatement.
ValueExprNodes ==
    UNION {IF s.cls = "CallStatement"
           THEN UNION {ExprNodes(s.expr.exprs[i]) :
                          i \in 1..Len(s.expr.exprs)}
           ELSE ExprNodes(s.expr) :
              s \in {t \in AllStatements : t.expr # NoExpr}}

\* C7: in the AST of a file that fill accepted, every expression node has a
\* result type, but for the CallExpr that is the expression of a
\* CallStatement: no operand, argument or if/while condition is a call of a
\* function that returns nothing.
C7_EveryValueHasAType ==
    tp_pc = "filled" => \A node \in ValueExprNodes : node.result.type # None

\* C8: in the AST of a file that fill accepted, the two operands of every
\* BinaryExpr and LogicalExpr have the same primary type; an untagged id
\* operand never goes together with a bool, number or string operand.
C8_OperandsOfTheSamePrimaryType ==
    tp_pc = "filled" =>
        \A node \in AllExprNodes :
            node.cls \in {"BinaryExpr", "LogicalExpr"} =>
                node.exprs[1].result.type = node.exprs[2].result.type

\* The places of the file where a declared type meets a value: the
\* declarations, the reassignments, the call arguments and the returned
\* values.
DeclaredTypeName(name) ==
    IF \E s \in AllStatements :
           s.cls = "VariableStatement" /\ s.name = name /\ s.type_name # None
    THEN (CHOOSE s \in AllStatements :
              /\ s.cls = "VariableStatement"
              /\ s.name = name
              /\ s.type_name # None).type_name
    ELSE None

Parameters(fn_name) ==
    IF fn_name \in GameFnNames THEN game_functions[fn_name].arguments
    ELSE (CHOOSE i \in helper_fns : ast[i].fn_name = fn_name).arguments

Meeting(declared, value) == [declared |-> declared, value |-> value]

Meetings ==
    {Meeting(IF s.type_name # None THEN s.type_name
             ELSE DeclaredTypeName(s.name), s.expr.result) :
        s \in {t \in AllStatements : t.cls = "VariableStatement"}}
    \cup UNION {{Meeting(Parameters(call.x)[i].type_name,
                         call.exprs[i].result) : i \in 1..Len(call.exprs)} :
                   call \in {node \in AllExprNodes : node.cls = "CallExpr"}}
    \cup UNION {{Meeting(ast[i].return_type_name, s.expr.result) :
                    s \in {t \in StatementsIn(ast[i].body_statements) :
                              t.cls = "ReturnStatement" /\ t.expr # NoExpr}} :
                   i \in helper_fns}

\* The errors that report a declared type and a value type that don't go
\* together.
Mismatches == {"argument expected the type", "can't assign",
               "is supposed to return"}

IsIdTypeName(type_name) == TypeOf(type_name) = "ID"

\* The two rules: the wildcard "id" on the declared side only, and on
\* either side.
CompatibleWithDeclared(declared, value) == declared = value \/ declared = "id"

CompatibleWithEither(declared, value) ==
    declared = value \/ declared = "id" \/ value = "id"

\* C9 as stated: a declared id type and the id type of a value go together
\* exactly when the tags are equal or either one is the untagged "id".
C9_WildcardOnEitherSide ==
    /\ tp_pc = "filled" =>
           \A m \in Meetings :
               IsIdTypeName(m.declared) /\ m.value.type = "ID" =>
                   CompatibleWithEither(m.declared, m.value.type_name)
    /\ (/\ tp_pc = "error"
        /\ tp_error.message \in Mismatches
        /\ IsIdTypeName(tp_error.expected)
        /\ IsIdTypeName(tp_error.got)) =>
           ~CompatibleWithEither(tp_error.expected, tp_error.got)

\* C9 amended: a declared id type and the id type of a value go together
\* exactly when the tags are equal or the declared type is the untagged
\* "id"; an untagged id value is rejected where a tagged id is declared.
C9_WildcardOnDeclaredSide ==
    /\ tp_pc = "filled" =>
           \A m \in Meetings :
               IsIdTypeName(m.declared) /\ m.value.type = "ID" =>
                   CompatibleWithDeclared(m.declared, m.value.type_name)
    /\ (/\ tp_pc = "error"
        /\ tp_error.message \in Mismatches
        /\ IsIdTypeName(tp_error.expected)
        /\ IsIdTypeName(tp_error.got)) =>
           ~CompatibleWithDeclared(tp_error.expected, tp_error.got)

\* An untagged id is refused as the argument of a parameter declared Dog.
C9_Witness_UntaggedArgumentRefused ==
    /\ tp_pc = "error"
    /\ tp_error = TypePropagationError("argument expected the type",
                                       "Dog", "id")

\* C29: in the AST of a file that fill accepted, the condition of every if
\* statement and of every while statement has result type bool.
C29_ConditionsAreBool ==
    tp_pc = "filled" =>
        \A s \in AllStatements :
            s.cls \in {"IfStatement", "WhileStatement"} =>
                s.expr.result.type = "BOOL"

----------------------------------------------------------------------------
(* Properties of the parser *)

\* Token p starts the definition of fn_name: the name stands before an open
\* parenthesis at the start of a line.
DefinitionAt(p, fn_name) ==
    /\ tokens[p] = Word(fn_name)
    /\ p + 1 <= Len(tokens)
    /\ tokens[p + 1].type = "OPEN_PARENTHESIS_TOKEN"
    /\ IF p = 1 THEN TRUE ELSE tokens[p - 1].type = "NEWLINE_TOKEN"

\* Token p starts a call of fn_name.
CallAt(p, fn_name) ==
    /\ tokens[p] = Word(fn_name)
    /\ p + 1 <= Len(tokens)
    /\ tokens[p + 1].type = "OPEN_PARENTHESIS_TOKEN"
    /\ ~DefinitionAt(p, fn_name)

\* fn_name is called at a token before the one that starts its first
\* definition.
CalledBeforeDefined(fn_name) ==
    \E d \in 1..Len(tokens) :
        /\ DefinitionAt(d, fn_name)
        /\ \A earlier \in 1..(d - 1) : ~DefinitionAt(earlier, fn_name)
        /\ \E p \in 1..(d - 1) : CallAt(p, fn_name)

\* C10: the parser takes the definition of a helper only if a call of that
\* name stands at an earlier place of the token stream, the calls of the
\* helper's own body not counting; no AST holds a HelperFn whose name was
\* not called before its definition.
C10_HelperCalledBeforeDefined ==
    \A k \in 1..Len(parser_ast) :
        parser_ast[k].cls = "HelperFn" =>
            CalledBeforeDefined(parser_ast[k].fn_name)

\* A file with a helper was parsed to its end.
C10_Witness_HelperParsed ==
    /\ ps_pc = "parsed"
    /\ \E k \in 1..Len(parser_ast) : parser_ast[k].cls = "HelperFn"

RECURSIVE EmptyLinesBetween(_)
\* The empty lines of the statements, and of the bodies of their ifs and
\* whiles, stand one at a time between two other statements.
EmptyLinesBetween(statements) ==
    LET empty(k) == statements[k].cls = "EmptyLineStatement"
    IN  /\ statements # <<>> => ~empty(1) /\ ~empty(Len(statements))
        /\ \A k \in 1..(Len(statements) - 1) : ~(empty(k) /\ empty(k + 1))
        /\ \A k \in 1..Len(statements) :
               /\ EmptyLinesBetween(statements[k].body)
               /\ EmptyLinesBetween(statements[k].else_body)

\* C26: in the body of every function the parser has parsed, and in every
\* if, else and while body in it, no two EmptyLineStatements follow each
\* other and none is the first or the last statement.
C26_NoStrayEmptyLines ==
    \A k \in 1..Len(parser_ast) :
        parser_ast[k].cls \in {"OnFn", "HelperFn"} =>
            EmptyLinesBetween(parser_ast[k].body_statements)

----------------------------------------------------------------------------
(* Properties of compiled files *)

\* Tokenizing, parsing and type propagation have all succeeded.
Compiled == ps_pc = "parsed" /\ tp_pc = "filled"

Definitions == {"VariableStatement", "OnFn", "HelperFn"}

\* The name a global variable or a function is defined under.
NameOf(node) ==
    IF node.cls = "VariableStatement" THEN node.name ELSE node.fn_name

\* The places of the AST that hold a definition of the class.
DefinitionsOf(cls) == {i \in 1..Len(ast) : ast[i].cls = cls}

\* C11: in the AST of a compiled file every global variable comes before
\* every on_ function, every on_ function before every helper_ function, and
\* no two globals, no two on_ functions and no two helper_ functions share a
\* name.
C11_DefinitionsOrderedAndUnique ==
    Compiled =>
        /\ \A i \in DefinitionsOf("VariableStatement") :
               \A j \in DefinitionsOf("OnFn") \cup DefinitionsOf("HelperFn") :
                   i < j
        /\ \A i \in DefinitionsOf("OnFn") :
               \A j \in DefinitionsOf("HelperFn") : i < j
        /\ \A cls \in Definitions :
               \A i, j \in DefinitionsOf(cls) :
                   i # j => NameOf(ast[i]) # NameOf(ast[j])

\* A file that defines a global, an on_ function and a helper has compiled.
C11_Witness_CompiledAllThree ==
    /\ Compiled
    /\ \A cls \in Definitions : DefinitionsOf(cls) # {}

\* The place of the declaration of an on_ function in the mod API, 0 when
\* the entity does not declare it.
DeclaredAt(fn_name) ==
    IF \E k \in 1..Len(entity_on_functions) :
           entity_on_functions[k].name = fn_name
    THEN CHOOSE k \in 1..Len(entity_on_functions) :
             entity_on_functions[k].name = fn_name
    ELSE 0

\* The identifiers of a body whose type is not filled in.
UnfilledIdentifiers(statements) ==
    {node \in UNION {ExprNodes(t.expr) :
                        t \in {u \in StatementsIn(statements) :
                                  u.expr # NoExpr}} :
        node.cls = "IdentifierExpr" /\ node.result.type = None}

\* C12: type propagation succeeds only if every on_ function of the file is
\* declared for the entity of the file, the on_ functions stand in the order
\* of their declarations, each has exactly the declared parameters (names
\* and types, in order), and the body of each has been type-checked.
C12_OnFnsAsDeclared ==
    tp_pc = "filled" =>
        /\ \A i \in on_fns :
               /\ DeclaredAt(ast[i].fn_name) # 0
               /\ ast[i].arguments
                      = entity_on_functions[DeclaredAt(ast[i].fn_name)]
                            .arguments
               /\ UnfilledIdentifiers(ast[i].body_statements) = {}
        /\ \A i, j \in on_fns :
               i < j =>
                   DeclaredAt(ast[i].fn_name) < DeclaredAt(ast[j].fn_name)

\* A file with on_a and on_b(n: number), in this order, has compiled.
C12_Witness_BothOnFnsCompiled ==
    /\ Compiled
    /\ \E i, j \in on_fns :
           /\ i < j
           /\ ast[i].fn_name = "on_a"
           /\ ast[j].fn_name = "on_b"
           /\ Len(ast[j].arguments) = 1
           /\ \E t \in StatementsIn(ast[j].body_statements) :
                  t.expr.cls = "IdentifierExpr"

\* The names of the global variables of the file, me included.
GlobalNames ==
    {"me"} \cup {ast[i].name : i \in DefinitionsOf("VariableStatement")}

\* The names the functions of the file bind: their parameters, and the
\* local variables they declare.
LocalNames ==
    UNION {{ast[i].arguments[k].name : k \in 1..Len(ast[i].arguments)}
           \cup {t.name : t \in {u \in StatementsIn(ast[i].body_statements) :
                                    /\ u.cls = "VariableStatement"
                                    /\ u.type_name # None}} :
              i \in on_fns \cup helper_fns}

\* The names the functions of the file assign to.
AssignedNames ==
    UNION {{t.name : t \in {u \in StatementsIn(ast[i].body_statements) :
                               u.cls = "VariableStatement"}} :
              i \in on_fns \cup helper_fns}

\* C13: the global me of an entity of a compiled file is the id the entity
\* was created with, whatever on_ functions have run; a compiled file
\* declares no global me, assigns to me nowhere, and none of its parameters
\* and local variables has the name of a global.
C13_MeIsNeverRebound ==
    /\ Compiled =>
           /\ LocalNames \cap GlobalNames = {}
           /\ "me" \notin AssignedNames
           /\ \A i \in DefinitionsOf("VariableStatement") : ast[i].name # "me"
    /\ en_pc = "created" =>
           en_global_variables["me"] = Value("ID", en_me_id)

\* An on_ function that assigns to the global g has run on the entity.
C13_Witness_HookAssignedGlobal ==
    /\ en_pc = "created"
    /\ en_fn_name = "on_a"
    /\ "g" \in AssignedNames \cap GlobalNames

\* The definitions at i and j follow each other in the parsed file, with
\* nothing but empty lines between them.
Consecutive(i, j) ==
    /\ i < j
    /\ parser_ast[i].cls \in {"VariableStatement", "OnFn", "HelperFn"}
    /\ parser_ast[j].cls \in {"VariableStatement", "OnFn", "HelperFn"}
    /\ \A k \in (i + 1)..(j - 1) : parser_ast[k] = EmptyLineStatement

\* C16: in a file the parser accepts, two consecutive definitions have
\* exactly one empty line between them, and two consecutive global
\* variables have none.
C16_EmptyLinesBetweenDefinitions ==
    ps_pc = "parsed" =>
        \A i, j \in DOMAIN parser_ast :
            Consecutive(i, j) =>
                j - i - 1 = IF /\ parser_ast[i].cls = "VariableStatement"
                               /\ parser_ast[j].cls = "VariableStatement"
                            THEN 0 ELSE 1

\* The last statement of the body that is not a comment is a return with a
\* value.
EndsWithReturn(body) ==
    \E k \in DOMAIN body :
        /\ body[k].cls = "ReturnStatement"
        /\ body[k].expr # NoExpr
        /\ \A j \in (k + 1)..Len(body) :
               body[j].cls \in {"CommentStatement", "EmptyLineStatement"}

\* The helper functions of the file that declare a return type.
TypedHelpers == {i \in helper_fns : ast[i].return_type_name # None}

\* C17: the type propagator accepts the helpers with a return type whose
\* last statement, comments after it not counted, is a return with a value
\* of the type, and raises "is supposed to return ... as its last line" for
\* no other; a call of such a helper gives a value at run time.
C17_TypedHelperEndsWithReturn ==
    /\ Compiled =>
           \A i \in TypedHelpers :
               /\ EndsWithReturn(ast[i].body_statements)
               /\ \A t \in {u \in StatementsIn(ast[i].body_statements) :
                               u.cls = "ReturnStatement"} :
                      t.expr.result.type_name = ast[i].return_type_name
    /\ tp_error.message = "is supposed to return as its last line" =>
           \E i \in TypedHelpers : ~EndsWithReturn(ast[i].body_statements)
    /\ en_fn_name = "on_a" /\ TypedHelpers # {} /\ "g" \in AssignedNames =>
           en_global_variables["g"] = Value("NUMBER", 1)

RECURSIVE JumpsInLoops(_, _)
\* Every break and continue of the statements, the bodies of their ifs
\* included, is in a loop: in one around the statements if in_loop, or else
\* in a while of the statements.
JumpsInLoops(statements, in_loop) ==
    \A k \in 1..Len(statements) :
        LET statement == statements[k]
        IN  /\ statement.cls \in {"BreakStatement", "ContinueStatement"} =>
                   in_loop
            /\ statement.cls = "IfStatement" =>
                   /\ JumpsInLoops(statement.body, in_loop)
                   /\ JumpsInLoops(statement.else_body, in_loop)
            /\ statement.cls = "WhileStatement" =>
                   JumpsInLoops(statement.body, TRUE)

TookNumber(v) == Call("take_number", <<Value("NUMBER", v)>>)

\* The calls of the inner loop of NestedLoops by the rules of the language:
\* with n = 2 and n = 3, a break ending the loop at n = 2 and a continue
\* skipping the rest of that iteration.
InnerLoopCalls(inner) ==
    LET nothing == Call("nothing", <<>>)
    IN  CASE inner = Break -> <<TookNumber(2)>>
          [] inner = Continue -> <<TookNumber(2), TookNumber(3), nothing>>
          [] OTHER -> <<TookNumber(2), nothing, nothing, TookNumber(3),
                        nothing>>

\* The calls of NestedLoops by the rules of the language: the inner loop
\* runs in full in each iteration of the outer one, with x = 2 and x = 3, a
\* break ending the outer loop at x = 2 and a continue skipping the rest of
\* that iteration; the statement after the loops runs.
NestedLoopsCalls(inner, outer) ==
    LET nothing == Call("nothing", <<>>)
        took_me == Call("take_id", <<Value("ID", en_me_id)>>)
        last == InnerLoopCalls(inner) \o <<TookNumber(-3), took_me>>
    IN  InnerLoopCalls(inner) \o <<TookNumber(-2)>>
        \o (CASE outer = Break -> <<>>
              [] outer = Continue -> last
              [] OTHER -> <<nothing, took_me>> \o last)
        \o <<TookNumber(1)>>

\* The game has called on_a of NestedLoops(inner, outer), and no runtime
\* error was handled.
RanNestedLoops(inner, outer) ==
    /\ tokens = NestedLoops(inner, outer)
    /\ en_on_fn_name = "on_a"
    /\ en_handled = <<>>

\* C24: every break and continue of a compiled file is in a while loop of
\* its function body; a break ends the innermost loop around it and a
\* continue goes on with the next test of the condition of that loop, the
\* loops around that loop and the statements after it running as without
\* the jump; no Break or Continue leaves a call of the game.
C24_JumpsStayInInnermostLoop ==
    /\ Compiled =>
           \A i \in on_fns \cup helper_fns :
               JumpsInLoops(ast[i].body_statements, FALSE)
    /\ en_raised \notin {"Break", "Continue"}
    /\ \A inner \in Jumps, outer \in Jumps :
           RanNestedLoops(inner, outer) =>
               /\ en_raised = "none"
               /\ en_calls = NestedLoopsCalls(inner, outer)

\* on_a has run with a continue in the inner loop and a break in the outer
\* loop.
C24_Witness_ContinueInBreak ==
    /\ RanNestedLoops(Continue, Break)
    /\ Len(en_calls) = 5


----------------------------------------------------------------------------
(* Properties of running entities *)

\* The names of the game functions the host was called with, in order.
CalledNames == [k \in 1..Len(en_calls) |-> en_calls[k].name]

RECURSIVE OfBoolCalls(_)
\* The expression is made of calls of is_true, is_false and take_bools and
\* of logical operators.
OfBoolCalls(expr) ==
    /\ \/ expr.cls = "LogicalExpr"
       \/ expr.cls = "CallExpr" /\ expr.x \in {"is_true", "is_false", "take_bools"}
    /\ \A k \in 1..Len(expr.exprs) : OfBoolCalls(expr.exprs[k])

RECURSIVE Holds(_)
\* The value of such an expression by the rules of the language.
Holds(expr) ==
    IF expr.cls = "CallExpr" THEN expr.x = "is_true"
    ELSE IF expr.x = "AND_TOKEN"
    THEN Holds(expr.exprs[1]) /\ Holds(expr.exprs[2])
    ELSE Holds(expr.exprs[1]) \/ Holds(expr.exprs[2])

RECURSIVE CallsInOrder(_)
RECURSIVE ArgumentCallsFrom(_, _)
\* The game function calls of the arguments from the i-th on, left to right.
ArgumentCallsFrom(i, exprs) ==
    IF i > Len(exprs) THEN <<>>
    ELSE CallsInOrder(exprs[i]) \o ArgumentCallsFrom(i + 1, exprs)

\* The game function calls that evaluating such an expression makes by the
\* rules of the language: the left operand first, the right operand only if
\* the left one does not decide, the arguments before the call.
CallsInOrder(expr) ==
    IF expr.cls = "CallExpr"
    THEN ArgumentCallsFrom(1, expr.exprs)
             \o <<Call(expr.x, [k \in 1..Len(expr.exprs) |->
                                   Bool(Holds(expr.exprs[k]))])>>
    ELSE CallsInOrder(expr.exprs[1])
             \o (IF (expr.x = "AND_TOKEN") = Holds(expr.exprs[1])
                 THEN CallsInOrder(expr.exprs[2])
                 ELSE <<>>)

\* The game has called on_a of a file whose on_a is one statement with such
\* an expression.
RanBoolCalls ==
    /\ en_on_fn_name = "on_a"
    /\ Len(ast) = 1
    /\ Len(ast[1].body_statements) = 1
    /\ OfBoolCalls(ast[1].body_statements[1].expr)

\* C23: the host sees the game function calls of an expression in the order
\* of the language: of L and R, L first and R only if L is true; of L or R,
\* L first and R only if L is false; of a call, its arguments left to right
\* and then the function itself.
C23_CallsInEvaluationOrder ==
    RanBoolCalls => en_calls = CallsInOrder(ast[1].body_statements[1].expr)

\* take_bools was called after a short-circuited and in its first argument
\* and a short-circuited or in its second.
C23_Witness_ShortCircuitInArguments ==
    /\ RanBoolCalls
    /\ CalledNames = <<"is_false", "is_true", "take_bools">>
    /\ en_calls[3].args = <<Bool(FALSE), Bool(TRUE)>>

\* The game has called on_a of a file whose on_a sets a local to 1, calls
\* the other function of the file, and hands the local to take_number.
RanCallerOfCallee ==
    /\ en_on_fn_name = "on_a"
    /\ en_raised = "none"
    /\ Len(ast) = 2
    /\ Len(ast[1].body_statements) = 3
    /\ ast[1].body_statements[1].expr.cls = "NumberExpr"
    /\ ast[1].body_statements[3].expr.x = "take_number"

\* C25: a helper and a nested on_ function that declare a local or assign
\* to a parameter with the name of a local of the caller leave the local of
\* the caller as it was: the caller hands the game the value it had set.
C25_CallerKeepsItsLocals ==
    RanCallerOfCallee =>
        en_calls[Len(en_calls)] = Call("take_number", <<Value("NUMBER", 1)>>)

\* on_a has set x to 1 and fired on_b, which set an x of its own to 2 and
\* handed it to the game, before on_a handed its x to the game.
C25_Witness_NestedHookDeclaredSameName ==
    /\ RanCallerOfCallee
    /\ ast[1].body_statements[1].name = "x"
    /\ CalledNames = <<"fire_b", "take_number", "take_number">>
    /\ en_calls[1].args = <<Value("NUMBER", 1)>>
    /\ en_calls[2].args = <<Value("NUMBER", 2)>>

\* C27: no assertion of the interpreter fails while an entity of a compiled
\* file is created or runs an on_ function, the game functions returning
\* values of their declared types: the operands of arithmetic and ordering
\* operators and of unary minus are numbers, and a call that is used as an
\* expression has a value.
C27_NoAssertionFails == en_raised # "AssertionError"

\* C28: the entity the game holds binds every global the file declares, and
\* no on_ function of it fails on the lookup of a name.
C28_GlobalsOfCreatedEntityAreBound ==
    en_pc = "created" =>
        /\ \A i \in DefinitionsOf("VariableStatement") :
               en_global_variables[ast[i].name] # NoValue
        /\ en_raised # "KeyError"

----------------------------------------------------------------------------
(* Properties of validate_resource_string *)

\* The segment of n dots that starts at string[k], k counted from 1, is a
\* whole path segment.
IsDotSegment(string, k, n) ==
    /\ k + n - 1 <= Len(string)
    /\ \A j \in k..(k + n - 1) : string[j] = "."
    /\ k = 1 \/ string[k - 1] = "/"
    /\ k + n - 1 = Len(string) \/ string[k + n] = "/"

HasDotSegment(string) ==
    \E k \in 1..Len(string), n \in {1, 2} : IsDotSegment(string, k, n)

\* C14: validate_resource_string raises for every resource string that has
\* a path segment "." or "..", wherever the segment is.
C14_DotSegmentsRejected ==
    rs_pc = "validated" /\ HasDotSegment(resource) => rs_error # NoError

----------------------------------------------------------------------------
(* Properties of parsed expressions *)

\* How tightly an operator binds: or, and, equality, comparison, additive,
\* multiplicative, from the loosest on.
Binding(type) ==
    CASE type = "OR_TOKEN" -> 1
      [] type = "AND_TOKEN" -> 2
      [] type \in {"EQUALS_TOKEN", "NOT_EQUALS_TOKEN"} -> 3
      [] type \in {"GREATER_OR_EQUAL_TOKEN", "GREATER_TOKEN",
                   "LESS_OR_EQUAL_TOKEN", "LESS_TOKEN"} -> 4
      [] type \in {"PLUS_TOKEN", "MINUS_TOKEN"} -> 5
      [] type \in {"MULTIPLICATION_TOKEN", "DIVISION_TOKEN"} -> 6

\* The places of the binary operators in the file: an operator with a space
\* on each side of it.
BinaryPlaces ==
    {k \in 2..(Len(tokens) - 1) :
        /\ tokens[k].type \in BinaryOperators
        /\ tokens[k - 1] = Space
        /\ tokens[k + 1] = Space}

RECURSIVE OperandRead(_, _)
\* The operand written from token lo to token hi: unary operators apply to
\* what follows them, a call to the name before its parentheses.
OperandRead(lo, hi) ==
    IF tokens[lo].type = "MINUS_TOKEN"
    THEN UnaryExpr("MINUS_TOKEN", OperandRead(lo + 1, hi))
    ELSE IF tokens[lo].type = "NOT_TOKEN"
    THEN UnaryExpr("NOT_TOKEN", OperandRead(lo + 2, hi))
    ELSE IF lo = hi THEN IdentifierExpr(tokens[lo].value)
    ELSE CallExpr(tokens[lo].value, <<>>)

RECURSIVE ExpressionRead(_, _)
\* The tree of the expression written from token lo to token hi: its root is
\* the last of its operators that bind the loosest.
ExpressionRead(lo, hi) ==
    LET places == BinaryPlaces \cap lo..hi
    IN  IF places = {} THEN OperandRead(lo, hi)
        ELSE LET k == CHOOSE p \in places :
                          \A q \in places :
                              \/ Binding(tokens[p].type)
                                     < Binding(tokens[q].type)
                              \/ /\ Binding(tokens[p].type)
                                        = Binding(tokens[q].type)
                                 /\ q <= p
             IN  Expr(IF tokens[k].type \in {"AND_TOKEN", "OR_TOKEN"}
                      THEN "LogicalExpr" ELSE "BinaryExpr",
                      tokens[k].type,
                      <<ExpressionRead(lo, k - 2), ExpressionRead(k + 2, hi)>>,
                      NoResult)

\* C15: the parser accepts every file  g: number = expression  whose
\* operators have one space on each side, and the tree it builds is the one
\* of the precedence order, every binary operator associating to the left.
C15_TreeFollowsPrecedence ==
    tokens \in ExpressionFiles =>
        /\ ps_pc # "error"
        /\ parser_ast # <<>> =>
               parser_ast[1].expr
                   = ExpressionRead(Len(Declared) + 1, Len(tokens) - 1)

\* The file  g: number = a - b - c  is parsed.
C15_Witness_TwoSubtractions ==
    /\ ps_pc = "parsed"
    /\ tokens \in ExpressionFiles
    /\ parser_ast[1].expr
           = BinaryExpr(BinaryExpr(IdentifierExpr("a"), "MINUS_TOKEN",
                                   IdentifierExpr("b")),
                        "MINUS_TOKEN", IdentifierExpr("c"))

----------------------------------------------------------------------------
(* Properties of the registration of the game functions *)

\* The game functions of the packages.
PackagedGameFns ==
    UNION {{GameFn(p, k) : k \in DOMAIN gs_packages[p].game_fns} :
              p \in DOMAIN gs_packages}

\* The name the packages give the game function.
EffectiveName(fn) ==
    prefixed(gs_packages[fn.pkg].prefix, gs_packages[fn.pkg].game_fns[fn.k])

\* C18: the construction exits when, and only when, two game functions of
\* the packages have the same effective name; when it succeeds every game
\* function is registered under its effective name.
C18_ExitOnDuplicateNamesOnly ==
    gs_pc \in {"constructed", "exit"} =>
        /\ gs_pc = "exit"
               <=> \E fn, other \in PackagedGameFns :
                       /\ fn # other
                       /\ EffectiveName(fn) = EffectiveName(other)
        /\ gs_pc = "constructed" =>
               \A fn \in PackagedGameFns : gs_game_fns[EffectiveName(fn)] = fn

----------------------------------------------------------------------------
(* Properties of load_component *)

\* The entry points that come before all others: the first that is not
\* named default, and the first of all when there is none.
Preferred ==
    LET others == {k \in DOMAIN ld_entry_points.eps :
                      ld_entry_points.eps[k].name # "default"}
    IN  IF others # {}
        THEN CHOOSE k \in others : \A j \in others : k <= j
        ELSE 1

\* C20: load_component returns the class grug.toml names for the component;
\* when it names none, the class of the first entry point that is not named
\* default, or of the first entry point when there is no such; and the
\* default class when there is no entry point or their lookup fails.
C20_ComponentPrecedence ==
    ld_pc = "loaded" =>
        ld_cls = IF ld_config = "class" THEN ConfigClass
                 ELSE IF ld_entry_points.raises THEN DefaultClass
                 ELSE IF ld_entry_points.eps = <<>> THEN DefaultClass
                 ELSE IF ld_entry_points.eps[Preferred].loads
                 THEN EntryPointClass(Preferred)
                 ELSE DefaultClass

\* The class of a second entry point was returned, the first being named
\* default and grug.toml naming no class.
C20_Witness_SecondEntryPoint ==
    /\ ld_pc = "loaded"
    /\ ld_config = "not set"
    /\ ld_cls = EntryPointClass(2)

----------------------------------------------------------------------------
(* Properties of the round trip through the serializer *)

\* The generated file is being parsed, or was.
Regenerated == sz_jsons # <<>> /\ sz_pc \in {"dumping", "done", "raised"}

\* C19: of a file the parser accepts, the AST is serialized, the file that
\* is generated from the JSON is accepted by the parser, and its AST is
\* serialized to the same JSON; it is the AST of the file, with its else
\* branches, its numbers and its comments.
C19_RoundTrip ==
    /\ sz_pc \notin {"raised", "rejected"}
    /\ Regenerated => ps_pc # "error"
    /\ sz_pc = "done" => sz_jsons[2] = sz_jsons[1] /\ sz_asts[2] = sz_asts[1]

============================================================================
